---- MODULE Spec2Model ----
(***************************************************************************)
(* Model of the presentation engine core: the ECS World (entity registry,  *)
(* component store, query cache, system scheduler) of                      *)
(* src/core/ecs/World.ts, the Entity and System classes, the SceneManager  *)
(* stage machine, and the frame clock Time with the animation frames of    *)
(* the host.                                                               *)
(*                                                                         *)
(* JavaScript Maps are modelled as functions whose DOMAIN is the key set.   *)
(* Map.forEach visits in insertion order; the model visits in ascending    *)
(* key order, and no property below depends on the order inside one        *)
(* forEach.  The value of World.entities at key id is the Entity object    *)
(* with that id, so the map is given by its key set.                       *)
(* Component kinds (class names) are the integers 1..NumKinds, ordered as  *)
(* Array.prototype.sort orders the names.                                  *)
(***************************************************************************)
EXTENDS Integers, Sequences, FiniteSets, TLC

\* ---------------------------------------------------------------- bounds
MaxEntities == 2
NumKinds == 2
NumComps == 3
\* argument lists and distinct cached queries, in the query specifications
MaxQueryLen == 2
MaxCached == 2
\* kinds queried for, one at a time, in the component-store specification
StoreKinds == 1
\* component objects and System objects the host uses in the whole-World specification
WorldComps == 1
WorldSystems == 2
\* System objects, and addSystem calls in one run
NumSystems == 3
MaxAdds == 3
\* names given to entities by the host
NumEntityNames == 2
\* stage names and Stage objects
NumNames == 2
NumStages == 3
\* animation frames of the host, animation-frame requests, and frame callbacks
\* nested in one another
MaxFrames == 2
MaxRequests == 3
MaxDepth == 1
\* Observer: callback functions, length of the callback array, once calls,
\* nested emit calls, and calls of one wrapper after which no emit is started
NumListenerFns == 2
MaxSubs == 2
MaxOnce == 2
MaxEmitDepth == 2
MaxOnceCalls == 2
\* ARStage: onInit calls
MaxInits == 2

\* ids handed to the World by callers: every id that can exist plus one that never does
CallIds == 0 .. MaxEntities
Kinds == 1 .. NumKinds
Comps == 1 .. NumComps
Systems == 1 .. NumSystems
EntityNames == 1 .. NumEntityNames
StageNames == 1 .. NumNames
StageObjs == 1 .. NumStages
\* the functions the host hands to the clock as frame callback
Callbacks == {1, 2}
ListenerFns == 1 .. NumListenerFns
Absent == 0
\* the values the host gives targetFPS (0 = unlimited) and the time between two
\* animation frames, in milliseconds
\* the default of the constructor argument targetFPS
DefaultFPS == 60
TargetRates == {0, DefaultFPS, 100}
\* the time the frame callback takes before it calls the clock, in milliseconds
CallbackTimes == {1}
\* the delta and elapsed values the host passes to SceneManager.update, in seconds
StageTimes == {0, 1}
FrameIntervals == {10, 600}

\* component.constructor.name of component instance c
KindOf(c) == ((c - 1) % NumKinds) + 1

RECURSIVE SeqsUpTo(_, _)
SeqsUpTo(S, n) ==
  IF n = 0 THEN {<<>>}
  ELSE LET shorter == SeqsUpTo(S, n - 1)
       IN shorter \cup {Append(q, x) : q \in {r \in shorter : Len(r) = n - 1}, x \in S}

KindLists == SeqsUpTo(Kinds, MaxQueryLen)
StoreLists == {<<>>} \cup {<<k>> : k \in 1 .. StoreKinds}

VARIABLES
  nextId,        \* Entity.nextId (static counter)
  names,         \* Entity.name of every constructed entity, by id
  active,        \* Entity.active of every constructed entity, by id
  entities,      \* World.entities   : Map<number, Entity>
  components,    \* World.components : Map<number, Map<string, Component>>
  queryCache,    \* World.queryCache : Map<string, Set<number>>
  systems,       \* World.systems    : System[]
  enabled,       \* System.enabled of every system
  updating,      \* a World.update call is in progress
  iterIdx,       \* next index of the array iterator of the for-of loop in update
  inCall,        \* control is inside system.update of the system visited last
  frameLog,      \* elements whose update was invoked by the update call in progress
  frameStart,    \* systems registered and enabled when the update call started
  frameAdded,    \* systems added by addSystem during the update call
  frameRemoved,  \* systems removed by removeSystem during the update call
  frameDup,      \* some system was in the list twice at some moment of the update call
  addCount,      \* number of addSystem calls so far (stamp of the next one)
  stages,        \* SceneManager.stages : Map<string, Stage>
  currentStage,  \* SceneManager.currentStage
  stageLive,     \* stages whose onInit was called and whose onDestroy was not since
  now,           \* performance.now() of the host, in milliseconds
  frames,        \* animation frames the host has started
  pending,       \* animation-frame requests the host holds for the next frame
  deliverQ,      \* requests of the frame in progress whose callback is still to run
  nextRaf,       \* the handle the next requestAnimationFrame call returns
  frameTime,     \* the timestamp of the animation frame in progress or last run
  startTime,     \* Time.startTime
  lastFrameTime, \* Time.lastFrameTime
  delta,         \* Time._delta
  elapsed,       \* Time._elapsed
  frameCount,    \* Time._frameCount
  targetFPS,     \* Time._targetFPS
  minFrameTime,  \* Time.minFrameTime
  fps,           \* Time._fps
  fpsAccumulator,\* Time.fpsAccumulator
  fpsFrameCount, \* Time.fpsFrameCount
  rafId,         \* Time.rafId (Absent = null)
  updateCallback,\* Time.updateCallback (Absent = null)
  isRunning,     \* Time._isRunning
  tickStack,     \* the tick calls whose callback is executing, innermost last
  cbInFrame,     \* callbacks invoked by the ticks the host ran in the last animation frame
  loopStart,     \* performance.now() at the last start() of the stopped clock or reset()
  deltaSum,      \* sum of the deltaMs passed to the callback since that start(), or Cut
  timeOp,        \* the step of the clock taken last
  cbLog,         \* the calls made by the Engine's frame callback invoked last
  posX,          \* position.x of the PositionComponent
  fedSum,        \* sum of the deltas the clock has passed to the Engine's callback
  events,        \* Observer.events : Map<string, EventCallback[]>
  emits,         \* the emit calls in progress (their forEach loops), innermost last
  heard,         \* the listeners the outermost emit found and called; calls of each once wrapper
  arStage,       \* the fields of the ARStage, and scene.background as the stage set it
  feeds,         \* the CameraFeed objects the stage constructed, with the position of start()
  lastOp,        \* the call that returned last: its name, receiver, error and result
  hookLog        \* hook calls made by that call, in call order

storeVars == <<nextId, names, active, entities, components, queryCache>>
schedVars == <<systems, enabled, updating, iterIdx, inCall, frameLog, frameStart,
               frameAdded, frameRemoved, frameDup, addCount>>
stageVars == <<stages, currentStage, stageLive>>
hostVars == <<now, frames, pending, deliverQ, nextRaf, frameTime>>
clockVars == <<startTime, lastFrameTime, delta, elapsed, frameCount, targetFPS,
               minFrameTime, fps, fpsAccumulator, fpsFrameCount, rafId, updateCallback,
               isRunning>>
timeVars == <<hostVars, clockVars, tickStack, cbInFrame, loopStart, deltaSum, timeOp>>
worldVars == <<storeVars, schedVars, stageVars, lastOp, hookLog>>
appVars == <<cbLog, posX, fedSum>>
obsVars == <<events, emits, heard>>
arVars == <<arStage, feeds>>
vars == <<nextId, names, active, entities, components, queryCache, systems, enabled,
          updating, iterIdx, inCall, frameLog, frameStart, frameAdded, frameRemoved,
          frameDup, addCount, stages, currentStage, stageLive, lastOp, hookLog, timeVars, appVars, obsVars, arVars>>

\* ------------------------------------------------------- Map operations
EmptyMap == [k \in {} |-> Absent]
MapHas(m, k) == k \in DOMAIN m
MapSet(m, k, v) == [x \in (DOMAIN m) \cup {k} |-> IF x = k THEN v ELSE m[x]]
MapDelete(m, k) == [x \in (DOMAIN m) \ {k} |-> m[x]]

\* the elements of a finite set of integers in ascending order
RECURSIVE Ascending(_)
Ascending(S) ==
  IF S = {} THEN <<>>
  ELSE LET m == CHOOSE x \in S : \A y \in S : x <= y
       IN <<m>> \o Ascending(S \ {m})

\* --------------------------------------------------------- records
\* self: the receiver of a method of an Entity or a System, as a set of at most one id
Call(op, self, err, ret) == [op |-> op, self |-> self, err |-> err, ret |-> ret]

SystemIds(list) == [i \in 1 .. Len(list) |-> list[i].sys]

\* one hook call, with what the hook could observe of the World while it ran
Hook(name, obj, ents, maps, syss) ==
  [hook |-> name, obj |-> obj, ents |-> ents, maps |-> DOMAIN maps,
   syss |-> SystemIds(syss)]

\* a World method can be called by the host between frames, or by the system
\* whose update is executing
CanCall == (~updating) \/ inCall

\* ------------------------------------------------------------- Entity
\* the default value `Entity_${Entity.nextId}` of the constructor's argument
DefaultName(id) == 0 - (id + 1)

\* mutant: the smallest id that no live entity of the World carries is handed out
EntityNamed_ReuseFreed(n) ==
  /\ CanCall
  /\ nextId < MaxEntities
  /\ LET id == CHOOSE i \in 0 .. nextId : i \notin entities /\ \A j \in 0 .. (i - 1) : j \in entities
     IN /\ names' = MapSet(names, id, n)
        /\ active' = MapSet(active, id, TRUE)
  /\ nextId' = nextId + 1
  /\ lastOp' = Call("new Entity", {}, "none", {})
  /\ hookLog' = <<>>
  /\ UNCHANGED <<entities, components, queryCache>>

\* new Entity(n)
EntityNamed(n) ==
  /\ CanCall
  /\ nextId < MaxEntities
  /\ nextId' = nextId + 1
  /\ names' = MapSet(names, nextId, n)
  /\ active' = MapSet(active, nextId, TRUE)
  /\ lastOp' = Call("new Entity", {}, "none", {})
  /\ hookLog' = <<>>
  /\ UNCHANGED <<entities, components, queryCache>>

\* new Entity()
Entity == EntityNamed(DefaultName(nextId))

deactivate(e) ==
  /\ CanCall
  /\ e \in DOMAIN active
  /\ active' = [active EXCEPT ![e] = FALSE]
  /\ lastOp' = Call("deactivate", {e}, "none", {})
  /\ hookLog' = <<>>
  /\ UNCHANGED <<nextId, names, entities, components, queryCache>>

activate(e) ==
  /\ CanCall
  /\ e \in DOMAIN active
  /\ active' = [active EXCEPT ![e] = TRUE]
  /\ lastOp' = Call("activate", {e}, "none", {})
  /\ hookLog' = <<>>
  /\ UNCHANGED <<nextId, names, entities, components, queryCache>>

\* -------------------------------------------------------------- World
clearQueryCache == EmptyMap

addEntity(e) ==
  /\ CanCall
  /\ e \in DOMAIN active
  /\ entities' = entities \cup {e}
  /\ components' = MapSet(components, e, EmptyMap)
  /\ lastOp' = Call("addEntity", {}, "none", {})
  /\ hookLog' = <<>>
  /\ UNCHANGED <<nextId, names, active, queryCache>>

\* the onDetach calls of componentMap.forEach
DetachAll(componentMap, ents, maps, syss) ==
  LET ks == Ascending(DOMAIN componentMap)
  IN [i \in 1 .. Len(ks) |-> Hook("onDetach", componentMap[ks[i]], ents, maps, syss)]

\* mutant: the components are dropped without their onDetach calls
removeEntity_NoDetach(id) ==
  /\ CanCall
  /\ hookLog' = <<>>
  /\ entities' = entities \ {id}
  /\ components' = MapDelete(components, id)
  /\ queryCache' = clearQueryCache
  /\ lastOp' = Call("removeEntity", {}, "none", {})
  /\ UNCHANGED <<nextId, names, active>>

\* mutant: the component map of the entity is left behind
removeEntity_KeepMap(id) ==
  /\ CanCall
  /\ hookLog' = IF MapHas(components, id)
                THEN DetachAll(components[id], entities, components, systems)
                ELSE <<>>
  /\ entities' = entities \ {id}
  /\ queryCache' = clearQueryCache
  /\ lastOp' = Call("removeEntity", {}, "none", {})
  /\ UNCHANGED <<nextId, names, active, components>>

removeEntity(id) ==
  /\ CanCall
  /\ hookLog' = IF MapHas(components, id)
                THEN DetachAll(components[id], entities, components, systems)
                ELSE <<>>
  /\ entities' = entities \ {id}
  /\ components' = MapDelete(components, id)
  /\ queryCache' = clearQueryCache
  /\ lastOp' = Call("removeEntity", {}, "none", {})
  /\ UNCHANGED <<nextId, names, active>>

\* mutant: a missing component map is created instead of raising the error
addComponent_AutoRegister(id, c) ==
  /\ CanCall
  /\ LET old == IF MapHas(components, id) THEN components[id] ELSE EmptyMap
         stored == MapSet(components, id, MapSet(old, KindOf(c), c))
     IN /\ components' = stored
        /\ hookLog' = <<Hook("onAttach", c, entities, stored, systems)>>
  /\ queryCache' = clearQueryCache
  /\ lastOp' = Call("addComponent", {}, "none", {})
  /\ UNCHANGED <<nextId, names, active, entities>>

\* mutant: the component that is overwritten gets its onDetach call first
addComponent_DetachOld(id, c) ==
  /\ CanCall
  /\ IF ~MapHas(components, id)
     THEN /\ lastOp' = Call("addComponent", {}, "EntityNotFound", {})
          /\ hookLog' = <<>>
          /\ UNCHANGED <<entities, components, queryCache>>
     ELSE LET stored == MapSet(components, id, MapSet(components[id], KindOf(c), c))
              old == IF MapHas(components[id], KindOf(c))
                     THEN <<Hook("onDetach", components[id][KindOf(c)], entities,
                                 components, systems)>>
                     ELSE <<>>
          IN /\ components' = stored
             /\ hookLog' = old \o <<Hook("onAttach", c, entities, stored, systems)>>
             /\ queryCache' = clearQueryCache
             /\ lastOp' = Call("addComponent", {}, "none", {})
             /\ UNCHANGED entities
  /\ UNCHANGED <<nextId, names, active>>

addComponent(id, c) ==
  /\ CanCall
  /\ IF ~MapHas(components, id)
     THEN /\ lastOp' = Call("addComponent", {}, "EntityNotFound", {})
          /\ hookLog' = <<>>
          /\ UNCHANGED <<entities, components, queryCache>>
     ELSE LET stored == MapSet(components, id, MapSet(components[id], KindOf(c), c))
          IN /\ components' = stored
             /\ hookLog' = <<Hook("onAttach", c, entities, stored, systems)>>
             /\ queryCache' = clearQueryCache
             /\ lastOp' = Call("addComponent", {}, "none", {})
             /\ UNCHANGED entities
  /\ UNCHANGED <<nextId, names, active>>

removeComponent(id, k) ==
  /\ CanCall
  /\ IF MapHas(components, id) /\ MapHas(components[id], k)
     THEN /\ hookLog' = <<Hook("onDetach", components[id][k], entities, components, systems)>>
          /\ components' = MapSet(components, id, MapDelete(components[id], k))
          /\ queryCache' = clearQueryCache
     ELSE /\ hookLog' = <<>>
          /\ UNCHANGED <<components, queryCache>>
  /\ lastOp' = Call("removeComponent", {}, "none", {})
  /\ UNCHANGED <<nextId, names, active, entities>>

getComponent(id, k) ==
  IF ~MapHas(components, id) THEN Absent
  ELSE IF MapHas(components[id], k) THEN components[id][k] ELSE Absent

hasComponent(id, k) ==
  IF MapHas(components, id) THEN MapHas(components[id], k) ELSE FALSE

getEntityCount == Cardinality(entities)

\* Array.prototype.sort on the class names (default comparison)
RECURSIVE SortKinds(_)
SortKinds(ks) ==
  IF ks = <<>> THEN <<>>
  ELSE LET m == CHOOSE i \in 1 .. Len(ks) : \A j \in 1 .. Len(ks) : ks[i] <= ks[j]
           rest == [j \in 1 .. (Len(ks) - 1) |-> IF j < m THEN ks[j] ELSE ks[j + 1]]
       IN <<ks[m]>> \o SortKinds(rest)

\* mutant: the names are joined in argument order
CacheKey_Unsorted(ks) == ks

\* componentClasses.map(c => c.name).sort().join(',')
CacheKey(ks) == SortKinds(ks)

\* the body of query behind the cache lookup
ComputeQuery(ks) ==
  {e \in entities : active[e] /\ \A n \in 1 .. Len(ks) : hasComponent(e, ks[n])}

query(ks) ==
  /\ CanCall
  /\ LET cacheKey == CacheKey(ks)
     IN IF MapHas(queryCache, cacheKey)
        THEN /\ lastOp' = Call("query", {}, "none", queryCache[cacheKey])
             /\ UNCHANGED queryCache
        ELSE /\ queryCache' = MapSet(queryCache, cacheKey, ComputeQuery(ks))
             /\ lastOp' = Call("query", {}, "none", ComputeQuery(ks))
  /\ hookLog' = <<>>
  /\ UNCHANGED <<nextId, names, active, entities, components>>

\* the onDetach calls of components.forEach(componentMap => componentMap.forEach(...))
RECURSIVE DetachEvery(_, _, _, _)
DetachEvery(ids, ents, maps, syss) ==
  IF ids = <<>> THEN <<>>
  ELSE DetachAll(maps[Head(ids)], ents, maps, syss) \o DetachEvery(Tail(ids), ents, maps, syss)

\* mutant: the components are detached while the systems are still registered
clear_DetachFirst ==
  /\ CanCall
  /\ hookLog' = DetachEvery(Ascending(DOMAIN components), entities, components, systems)
                \o [i \in 1 .. Len(systems) |->
                      Hook("onDestroy", systems[i].sys, entities, components, systems)]
  /\ systems' = <<>>
  /\ entities' = {}
  /\ components' = EmptyMap
  /\ queryCache' = EmptyMap
  /\ lastOp' = Call("clear", {}, "none", {})
  /\ UNCHANGED <<nextId, names, active>>

\* mutant: the query cache survives
clear_KeepCache ==
  /\ CanCall
  /\ hookLog' = [i \in 1 .. Len(systems) |->
                   Hook("onDestroy", systems[i].sys, entities, components, systems)]
                \o DetachEvery(Ascending(DOMAIN components), entities, components, <<>>)
  /\ systems' = <<>>
  /\ entities' = {}
  /\ components' = EmptyMap
  /\ lastOp' = Call("clear", {}, "none", {})
  /\ UNCHANGED <<nextId, names, active, queryCache>>

clear ==
  /\ CanCall
  /\ hookLog' = [i \in 1 .. Len(systems) |->
                   Hook("onDestroy", systems[i].sys, entities, components, systems)]
                \o DetachEvery(Ascending(DOMAIN components), entities, components, <<>>)
  /\ systems' = <<>>
  /\ entities' = {}
  /\ components' = EmptyMap
  /\ queryCache' = EmptyMap
  /\ lastOp' = Call("clear", {}, "none", {})
  /\ UNCHANGED <<nextId, names, active>>

\* ------------------------------------------------------------ System
\* System.priority, set by the constructor: the priorities 5, -100, 0, 5 of the
\* scheduling example, the two equal ones first
PriorityTable == <<5, -100, 5, 0>>
Priority(s) == PriorityTable[((s - 1) % Len(PriorityTable)) + 1]

enable(s) ==
  /\ enabled' = [enabled EXCEPT ![s] = TRUE]
  /\ lastOp' = Call("enable", {s}, "none", {})
  /\ hookLog' = <<>>
  /\ UNCHANGED <<systems, updating, iterIdx, inCall, frameLog, frameStart, frameAdded,
                 frameRemoved, frameDup, addCount>>

disable(s) ==
  /\ enabled' = [enabled EXCEPT ![s] = FALSE]
  /\ lastOp' = Call("disable", {s}, "none", {})
  /\ hookLog' = <<>>
  /\ UNCHANGED <<systems, updating, iterIdx, inCall, frameLog, frameStart, frameAdded,
                 frameRemoved, frameDup, addCount>>

\* ------------------------------------------------- World: the scheduler
\* mutant: x goes in front of the elements that compare equal
InsertByPriority_BeforeEquals(sorted, x) ==
  LET n == Cardinality({i \in 1 .. Len(sorted) : Priority(sorted[i].sys) < Priority(x.sys)})
  IN SubSeq(sorted, 1, n) \o <<x>> \o SubSeq(sorted, n + 1, Len(sorted))

\* one step of the stable sort with comparator a.priority - b.priority:
\* x goes behind every element that does not compare greater
InsertByPriority(sorted, x) ==
  LET n == Cardinality({i \in 1 .. Len(sorted) : Priority(sorted[i].sys) <= Priority(x.sys)})
  IN SubSeq(sorted, 1, n) \o <<x>> \o SubSeq(sorted, n + 1, Len(sorted))

\* this.systems.sort((a, b) => a.priority - b.priority)
RECURSIVE SortByPriority(_)
SortByPriority(list) ==
  IF list = <<>> THEN <<>>
  ELSE InsertByPriority(SortByPriority(SubSeq(list, 1, Len(list) - 1)), list[Len(list)])

HasDuplicates(list) ==
  \E i, j \in 1 .. Len(list) : i # j /\ list[i].sys = list[j].sys

\* mutant: onInit runs before the system is in the list
addSystem_InitFirst(s) ==
  /\ CanCall
  /\ LET sorted == SortByPriority(Append(systems, [sys |-> s, stamp |-> addCount]))
     IN /\ systems' = sorted
        /\ hookLog' = <<Hook("onInit", s, entities, components, systems)>>
        /\ frameDup' = (frameDup \/ (updating /\ HasDuplicates(sorted)))
  /\ addCount' = addCount + 1
  /\ frameAdded' = IF updating THEN frameAdded \cup {s} ELSE frameAdded
  /\ lastOp' = Call("addSystem", {}, "none", {})
  /\ UNCHANGED <<enabled, updating, iterIdx, inCall, frameLog, frameStart, frameRemoved>>

\* an element of the list is the System object and, for the properties, the
\* number of the addSystem call that pushed it
addSystem(s) ==
  /\ CanCall
  /\ LET sorted == SortByPriority(Append(systems, [sys |-> s, stamp |-> addCount]))
     IN /\ systems' = sorted
        /\ hookLog' = <<Hook("onInit", s, entities, components, sorted)>>
        /\ frameDup' = (frameDup \/ (updating /\ HasDuplicates(sorted)))
  /\ addCount' = addCount + 1
  /\ frameAdded' = IF updating THEN frameAdded \cup {s} ELSE frameAdded
  /\ lastOp' = Call("addSystem", {}, "none", {})
  /\ UNCHANGED <<enabled, updating, iterIdx, inCall, frameLog, frameStart, frameRemoved>>

\* this.systems.indexOf(system), 1-based, 0 for -1
IndexOf(list, s) ==
  IF \E i \in 1 .. Len(list) : list[i].sys = s
  THEN CHOOSE i \in 1 .. Len(list) :
         list[i].sys = s /\ \A j \in 1 .. (i - 1) : list[j].sys # s
  ELSE 0

removeSystem(s) ==
  /\ CanCall
  /\ LET index == IndexOf(systems, s)
     IN IF index # 0
        THEN /\ hookLog' = <<Hook("onDestroy", s, entities, components, systems)>>
             /\ systems' = SubSeq(systems, 1, index - 1)
                           \o SubSeq(systems, index + 1, Len(systems))
             /\ frameRemoved' = IF updating THEN frameRemoved \cup {s} ELSE frameRemoved
        ELSE /\ hookLog' = <<>>
             /\ UNCHANGED <<systems, frameRemoved>>
  /\ lastOp' = Call("removeSystem", {}, "none", {})
  /\ UNCHANGED <<enabled, updating, iterIdx, inCall, frameLog, frameStart, frameAdded,
                 frameDup, addCount>>

\* World.update runs the systems' update methods, which call back into the World,
\* so the call is modelled in steps.  updateBegin enters the for-of loop: the
\* array iterator is created on this.systems with index 0.
updateBegin ==
  /\ ~updating
  /\ updating' = TRUE
  /\ iterIdx' = 0
  /\ inCall' = FALSE
  /\ frameLog' = <<>>
  /\ frameStart' = {systems[i].sys : i \in {j \in 1 .. Len(systems) : enabled[systems[j].sys]}}
  /\ frameAdded' = {}
  /\ frameRemoved' = {}
  /\ frameDup' = HasDuplicates(systems)
  /\ UNCHANGED <<systems, enabled, addCount, lastOp, hookLog>>

\* mutant: the enabled flag is not looked at
updateNext_IgnoreEnabled ==
  /\ updating
  /\ IF iterIdx < Len(systems)
     THEN /\ iterIdx' = iterIdx + 1
          /\ frameLog' = Append(frameLog, systems[iterIdx + 1])
          /\ inCall' = TRUE
          /\ UNCHANGED <<updating, frameStart, frameAdded, frameRemoved, frameDup,
                         lastOp, hookLog>>
     ELSE /\ updating' = FALSE
          /\ iterIdx' = 0
          /\ inCall' = FALSE
          /\ frameLog' = <<>>
          /\ frameStart' = {}
          /\ frameAdded' = {}
          /\ frameRemoved' = {}
          /\ frameDup' = FALSE
          /\ lastOp' = Call("update", {}, "none", {})
          /\ hookLog' = <<>>
  /\ UNCHANGED <<systems, enabled, addCount>>

\* the system.update in progress (if any) returns and the iterator is asked for
\* the next element: it compares its index with the current length of the array.
\* When the loop ends, the record of the call is dropped.
updateNext ==
  /\ updating
  /\ IF iterIdx < Len(systems)
     THEN LET system == systems[iterIdx + 1]
          IN /\ iterIdx' = iterIdx + 1
             /\ IF enabled[system.sys]
                THEN /\ frameLog' = Append(frameLog, system)
                     /\ inCall' = TRUE
                ELSE /\ inCall' = FALSE
                     /\ UNCHANGED frameLog
             /\ UNCHANGED <<updating, frameStart, frameAdded, frameRemoved, frameDup,
                            lastOp, hookLog>>
     ELSE /\ updating' = FALSE
          /\ iterIdx' = 0
          /\ inCall' = FALSE
          /\ frameLog' = <<>>
          /\ frameStart' = {}
          /\ frameAdded' = {}
          /\ frameRemoved' = {}
          /\ frameDup' = FALSE
          /\ lastOp' = Call("update", {}, "none", {})
          /\ hookLog' = <<>>
  /\ UNCHANGED <<systems, enabled, addCount>>

\* ------------------------------------------------------- SceneManager
\* one hook call on a stage, with the stage that was current while it ran
StageHook(name, obj, cur) == [hook |-> name, obj |-> obj, cur |-> cur]

\* the onUpdate call on a stage, with the arguments it is given
StageUpdate(obj, cur, d, e) ==
  [hook |-> "onUpdate", obj |-> obj, cur |-> cur, delta |-> d, elapsed |-> e]

\* the stages entered and not yet exited, after the hook calls of log
RECURSIVE LiveAfter(_, _)
LiveAfter(live, log) ==
  IF log = <<>> THEN live
  ELSE LiveAfter(IF Head(log).hook = "onInit" THEN live \cup {Head(log).obj}
                 ELSE IF Head(log).hook = "onDestroy" THEN live \ {Head(log).obj}
                 ELSE live,
                 Tail(log))

registerStage(name, stage) ==
  /\ stages' = MapSet(stages, name, stage)
  /\ lastOp' = Call("registerStage", {}, "none", {})
  /\ hookLog' = <<>>
  /\ UNCHANGED <<currentStage, stageLive>>

\* mutant: a switch to the stage that is current resumes it
switchTo_Resume(name) ==
  IF ~MapHas(stages, name)
  THEN /\ lastOp' = Call("switchTo", {}, "StageNotFound", {})
       /\ hookLog' = <<>>
       /\ UNCHANGED <<stages, currentStage, stageLive>>
  ELSE LET nextStage == stages[name]
       IN /\ hookLog' = IF nextStage = currentStage THEN <<>>
                        ELSE (IF currentStage # Absent
                              THEN <<StageHook("onDestroy", currentStage, currentStage)>>
                              ELSE <<>>)
                             \o <<StageHook("onInit", nextStage, nextStage)>>
          /\ currentStage' = nextStage
          /\ lastOp' = Call("switchTo", {}, "none", {})
          /\ stageLive' = LiveAfter(stageLive, hookLog')
          /\ UNCHANGED stages

\* mutant: the current stage is exited before the name is looked up
switchTo_DestroyFirst(name) ==
  IF ~MapHas(stages, name)
  THEN /\ lastOp' = Call("switchTo", {}, "StageNotFound", {})
       /\ hookLog' = IF currentStage # Absent
                     THEN <<StageHook("onDestroy", currentStage, currentStage)>>
                     ELSE <<>>
       /\ currentStage' = Absent
       /\ stageLive' = LiveAfter(stageLive, hookLog')
       /\ UNCHANGED stages
  ELSE LET nextStage == stages[name]
       IN /\ hookLog' = (IF currentStage # Absent
                         THEN <<StageHook("onDestroy", currentStage, currentStage)>>
                         ELSE <<>>)
                        \o <<StageHook("onInit", nextStage, nextStage)>>
          /\ currentStage' = nextStage
          /\ lastOp' = Call("switchTo", {}, "none", {})
          /\ stageLive' = LiveAfter(stageLive, hookLog')
          /\ UNCHANGED stages

switchTo(name) ==
  IF ~MapHas(stages, name)
  THEN /\ lastOp' = Call("switchTo", {}, "StageNotFound", {})
       /\ hookLog' = <<>>
       /\ UNCHANGED <<stages, currentStage, stageLive>>
  ELSE LET nextStage == stages[name]
       IN /\ hookLog' = (IF currentStage # Absent
                         THEN <<StageHook("onDestroy", currentStage, currentStage)>>
                         ELSE <<>>)
                        \o <<StageHook("onInit", nextStage, nextStage)>>
          /\ currentStage' = nextStage
          /\ lastOp' = Call("switchTo", {}, "none", {})
          /\ stageLive' = LiveAfter(stageLive, hookLog')
          /\ UNCHANGED stages

\* mutant: the tick is forwarded to every registered stage
sceneUpdate_All(d, e) ==
  /\ hookLog' = [i \in 1 .. Len(Ascending(DOMAIN stages)) |->
                   StageUpdate(stages[Ascending(DOMAIN stages)[i]], currentStage, d, e)]
  /\ lastOp' = Call("update", {}, "none", {})
  /\ UNCHANGED <<stages, currentStage, stageLive>>

\* SceneManager.update(delta, elapsed)
sceneUpdate(d, e) ==
  /\ hookLog' = IF currentStage # Absent
                THEN <<StageUpdate(currentStage, currentStage, d, e)>>
                ELSE <<>>
  /\ lastOp' = Call("update", {}, "none", {})
  /\ UNCHANGED <<stages, currentStage, stageLive>>

\* mutant: the registry is kept
dispose_KeepRegistry ==
  /\ hookLog' = IF currentStage # Absent
                THEN <<StageHook("onDestroy", currentStage, currentStage)>>
                ELSE <<>>
  /\ currentStage' = Absent
  /\ stageLive' = LiveAfter(stageLive, hookLog')
  /\ lastOp' = Call("dispose", {}, "none", {})
  /\ UNCHANGED stages

dispose ==
  /\ hookLog' = IF currentStage # Absent
                THEN <<StageHook("onDestroy", currentStage, currentStage)>>
                ELSE <<>>
  /\ currentStage' = Absent
  /\ stages' = EmptyMap
  /\ stageLive' = LiveAfter(stageLive, hookLog')
  /\ lastOp' = Call("dispose", {}, "none", {})

\* --------------------------------------------------------------- Time
\* Times are milliseconds of the host clock, read by performance.now() and passed
\* to the callbacks of requestAnimationFrame; the host clock advances between
\* animation frames.  A quotient the code computes is kept as the pair of its
\* numerator and its (positive) denominator.
Frac(n, d) == <<n, d>>
FracLess(a, b) == a[1] * b[2] < b[1] * a[2]
FracEq(a, b) == a[1] * b[2] = b[1] * a[2]

\* mutant: the quotient is truncated
MathRound_Floor(n, d) == n \div d

\* Math.round(n / d)
MathRound(n, d) == ((2 * n) + d) \div (2 * d)

\* targetFPS > 0 ? 1000 / targetFPS : 0
MinFrameTime(rate) == IF rate > 0 THEN Frac(1000, rate) ELSE Frac(0, 1)

\* one step of the clock: the method, whether tick ran past its isRunning test,
\* whether it skipped the frame, the callback it invoked, whether it called
\* requestAnimationFrame, whether it warned, and the timestamp tick was given
TimeOp(op, ran, skipped, called, requested, warned, time) ==
  [op |-> op, ran |-> ran, skipped |-> skipped, called |-> called,
   requested |-> requested, warned |-> warned, time |-> time]

\* the value of deltaSum after a stop() or a reset()
Cut == 0 - 1

\* mutant: no frame is skipped
Capped_Never(deltaMs) == FALSE

\* this._targetFPS > 0 && deltaMs < this.minFrameTime
Capped(deltaMs) == targetFPS > 0 /\ FracLess(Frac(deltaMs, 1), minFrameTime)

\* this.rafId = requestAnimationFrame(this.tick)
RequestFrame ==
  /\ rafId' = nextRaf
  /\ pending' = pending \cup {nextRaf}
  /\ nextRaf' = nextRaf + 1

\* tick(currentTime), entered with lastFrameTime = lft, _isRunning = running and
\* updateCallback = cb, up to the point where control passes to the callback;
\* sum is the sum of the deltaMs passed to the callback so far
tick(currentTime, lft, running, cb, sum, op) ==
  IF ~running
  THEN /\ lastFrameTime' = lft
       /\ timeOp' = TimeOp(op, FALSE, FALSE, Absent, FALSE, FALSE, currentTime)
       /\ UNCHANGED <<delta, elapsed, frameCount, fps, fpsAccumulator, fpsFrameCount,
                      rafId, pending, nextRaf, tickStack, cbInFrame>>
       /\ deltaSum' = sum
  ELSE LET deltaMs == currentTime - lft
       IN IF Capped(deltaMs)
          THEN /\ RequestFrame
               /\ lastFrameTime' = lft
               /\ timeOp' = TimeOp(op, TRUE, TRUE, Absent, TRUE, FALSE, currentTime)
               /\ UNCHANGED <<delta, elapsed, frameCount, fps, fpsAccumulator,
                              fpsFrameCount, tickStack, cbInFrame>>
               /\ deltaSum' = sum
          ELSE LET acc == fpsAccumulator + deltaMs
                   cnt == fpsFrameCount + 1
               IN /\ deltaSum' = IF cb = Absent \/ sum = Cut THEN sum ELSE sum + deltaMs
                  /\ delta' = Frac(deltaMs, 1000)
                  /\ elapsed' = Frac(currentTime - startTime, 1000)
                  /\ frameCount' = frameCount + 1
                  /\ IF acc >= 1000
                     THEN /\ fps' = MathRound(cnt * 1000, acc)
                          /\ fpsAccumulator' = 0
                          /\ fpsFrameCount' = 0
                     ELSE /\ fpsAccumulator' = acc
                          /\ fpsFrameCount' = cnt
                          /\ UNCHANGED fps
                  /\ IF cb # Absent
                     THEN /\ tickStack' = Append(tickStack, currentTime)
                          /\ cbInFrame' = IF op = "tick" THEN cbInFrame + 1 ELSE cbInFrame
                          /\ lastFrameTime' = lft
                          /\ timeOp' = TimeOp(op, TRUE, FALSE, cb, FALSE, FALSE, currentTime)
                          /\ UNCHANGED <<rafId, pending, nextRaf>>
                     ELSE /\ RequestFrame
                          /\ lastFrameTime' = currentTime
                          /\ timeOp' = TimeOp(op, TRUE, FALSE, Absent, TRUE, FALSE, currentTime)
                          /\ UNCHANGED <<tickStack, cbInFrame>>

\* mutant: a second start replaces the callback
timeStart_Replace(cb) ==
  IF isRunning
  THEN /\ updateCallback' = cb
       /\ timeOp' = TimeOp("start", FALSE, FALSE, Absent, FALSE, TRUE, now)
       /\ UNCHANGED <<hostVars, startTime, lastFrameTime, delta, elapsed, frameCount,
                      targetFPS, minFrameTime, fps, fpsAccumulator, fpsFrameCount, rafId,
                      isRunning, tickStack, cbInFrame, loopStart, deltaSum>>
  ELSE /\ updateCallback' = cb
       /\ isRunning' = TRUE
       /\ loopStart' = now
       /\ tick(now, now, TRUE, cb, 0, "start")
       /\ UNCHANGED <<now, frames, deliverQ, frameTime, startTime, targetFPS, minFrameTime>>

\* Time.start(callback)
timeStart(cb) ==
  IF isRunning
  THEN /\ timeOp' = TimeOp("start", FALSE, FALSE, Absent, FALSE, TRUE, now)
       /\ UNCHANGED <<hostVars, clockVars, tickStack, cbInFrame, loopStart, deltaSum>>
  ELSE /\ updateCallback' = cb
       /\ isRunning' = TRUE
       /\ loopStart' = now
       /\ tick(now, now, TRUE, cb, 0, "start")
       /\ UNCHANGED <<now, frames, deliverQ, frameTime, startTime, targetFPS, minFrameTime>>

\* the sequence q without the handle h
RECURSIVE Without(_, _)
Without(q, h) ==
  IF q = <<>> THEN <<>>
  ELSE IF Head(q) = h THEN Without(Tail(q), h)
  ELSE <<Head(q)>> \o Without(Tail(q), h)

\* Time.stop()
timeStop ==
  /\ IF rafId # Absent
     THEN /\ pending' = pending \ {rafId}
          /\ deliverQ' = Without(deliverQ, rafId)
          /\ rafId' = Absent
     ELSE UNCHANGED <<pending, deliverQ, rafId>>
  /\ isRunning' = FALSE
  /\ deltaSum' = Cut
  /\ timeOp' = TimeOp("stop", FALSE, FALSE, Absent, FALSE, FALSE, now)
  /\ UNCHANGED <<now, frames, nextRaf, frameTime, startTime, lastFrameTime, delta, elapsed,
                 frameCount, targetFPS, minFrameTime, fps, fpsAccumulator, fpsFrameCount,
                 updateCallback, tickStack, cbInFrame, loopStart>>

\* Time.reset()
timeReset ==
  /\ startTime' = now
  /\ lastFrameTime' = now
  /\ delta' = Frac(0, 1)
  /\ elapsed' = Frac(0, 1)
  /\ frameCount' = 0
  /\ fps' = 0
  /\ fpsAccumulator' = 0
  /\ fpsFrameCount' = 0
  /\ loopStart' = now
  /\ deltaSum' = Cut
  /\ timeOp' = TimeOp("reset", FALSE, FALSE, Absent, FALSE, FALSE, now)
  /\ UNCHANGED <<hostVars, targetFPS, minFrameTime, rafId, updateCallback, isRunning,
                 tickStack, cbInFrame>>

\* set targetFPS(rate)
setTargetFPS(rate) ==
  /\ targetFPS' = rate
  /\ minFrameTime' = MinFrameTime(rate)
  /\ timeOp' = TimeOp("targetFPS", FALSE, FALSE, Absent, FALSE, FALSE, now)
  /\ UNCHANGED <<hostVars, startTime, lastFrameTime, delta, elapsed, frameCount, fps,
                 fpsAccumulator, fpsFrameCount, rafId, updateCallback, isRunning,
                 tickStack, cbInFrame, loopStart, deltaSum>>

\* the host starts an animation frame d milliseconds after the last one: the
\* callbacks requested so far are run in this frame, in request order
hostFrame(d) ==
  /\ tickStack = <<>>
  /\ deliverQ = <<>>
  /\ now' = now + d
  /\ frameTime' = now + d
  /\ frames' = frames + 1
  /\ deliverQ' = Ascending(pending)
  /\ pending' = {}
  /\ cbInFrame' = 0
  /\ timeOp' = TimeOp("frame", FALSE, FALSE, Absent, FALSE, FALSE, now + d)
  /\ UNCHANGED <<nextRaf, clockVars, tickStack, loopStart, deltaSum>>

\* mutant: the tick does not test _isRunning
tickDeliver_IgnoreStopped ==
  /\ tickStack = <<>>
  /\ deliverQ # <<>>
  /\ deliverQ' = Tail(deliverQ)
  /\ tick(frameTime, lastFrameTime, TRUE, updateCallback, deltaSum, "tick")
  /\ UNCHANGED <<now, frames, frameTime, startTime, targetFPS, minFrameTime, updateCallback,
                 isRunning, loopStart>>

\* the host runs the next callback of the animation frame: tick(timestamp)
tickDeliver ==
  /\ tickStack = <<>>
  /\ deliverQ # <<>>
  /\ deliverQ' = Tail(deliverQ)
  /\ tick(frameTime, lastFrameTime, isRunning, updateCallback, deltaSum, "tick")
  /\ UNCHANGED <<now, frames, frameTime, startTime, targetFPS, minFrameTime, updateCallback,
                 isRunning, loopStart>>

\* the callback returns to tick, which records the frame and requests the next
callbackReturn ==
  /\ tickStack # <<>>
  /\ tickStack' = SubSeq(tickStack, 1, Len(tickStack) - 1)
  /\ lastFrameTime' = tickStack[Len(tickStack)]
  /\ RequestFrame
  /\ timeOp' = TimeOp("return", TRUE, FALSE, Absent, TRUE, FALSE, tickStack[Len(tickStack)])
  /\ UNCHANGED <<now, frames, deliverQ, frameTime, startTime, delta, elapsed, frameCount,
                 targetFPS, minFrameTime, fps, fpsAccumulator, fpsFrameCount,
                 updateCallback, isRunning, cbInFrame, loopStart, deltaSum>>

\* d milliseconds pass while the frame callback executes
elapse(d) ==
  /\ tickStack # <<>>
  /\ now' = now + d
  /\ UNCHANGED <<frames, pending, deliverQ, nextRaf, frameTime, clockVars, tickStack,
                 cbInFrame, loopStart, deltaSum, timeOp>>

\* ------------------------------------------------------ Engine and App
\* the frame callback Engine.start hands to the clock
EngineLoop == 1

\* the system that adds delta to position.x of the entities holding a Position,
\* and the RenderSystem of the application
Mover == 1
RenderSys == 2

\* the PositionComponent of the application and the class names the systems query
Position == 1
PositionKind == KindOf(Position)
MeshKinds == Kinds \ {PositionKind}

\* the stage of the application and the name it is registered under
ArName == 1
ArStage == 1

\* a + b
FracAdd(a, b) ==
  IF a[2] = b[2] THEN Frac(a[1] + b[1], a[2])
  ELSE Frac((a[1] * b[2]) + (b[1] * a[2]), a[2] * b[2])

\* one call made by the Engine's frame callback: the method, its receiver and the
\* (delta, elapsed) it is given
EngineCall(call, obj, d, e) == [call |-> call, obj |-> obj, delta |-> d, elapsed |-> e]

\* the calls of log to the method call
CallsOf(log, call) == {i \in DOMAIN log : log[i].call = call}

\* this.updateCallback(this._delta, this._elapsed): control passes to the arrow
\* function of Engine.start when the step of the clock invokes the callback
engineEnter ==
  IF Len(tickStack') > Len(tickStack)
  THEN /\ cbLog' = <<EngineCall("callback", EngineLoop, delta', elapsed')>>
       /\ fedSum' = FracAdd(fedSum, delta')
       /\ UNCHANGED posX
  ELSE UNCHANGED appVars

\* Engine.start(), after Engine.init()
engineStart == timeStart(EngineLoop) /\ engineEnter

\* Engine.stop()
engineStop == timeStop /\ UNCHANGED appVars

\* the host runs the next callback of the animation frame
engineTick == tickDeliver /\ engineEnter

\* mutant: the arguments are passed in the other order
engineUpdate_Swapped ==
  /\ tickStack # <<>>
  /\ Len(cbLog) = 1
  /\ updateBegin
  /\ cbLog' = Append(cbLog, EngineCall("world.update", Absent, cbLog[1].elapsed, cbLog[1].delta))
  /\ UNCHANGED <<posX, fedSum>>

\* this.update(delta, elapsed): this.world.update(delta, elapsed) enters its loop
engineUpdate ==
  /\ tickStack # <<>>
  /\ Len(cbLog) = 1
  /\ updateBegin
  /\ cbLog' = Append(cbLog, EngineCall("world.update", Absent, cbLog[1].delta, cbLog[1].elapsed))
  /\ UNCHANGED <<posX, fedSum>>

\* system.update(delta, elapsed) of the system the loop of World.update visits:
\* the system queries the World and reads the components of the entities found;
\* the Mover adds delta to position.x of each Position it is handed
systemUpdate ==
  /\ updating
  /\ inCall
  /\ Cardinality(CallsOf(cbLog, "system.update")) < Len(frameLog)
  /\ LET system == frameLog[Len(frameLog)].sys
         d == cbLog[2].delta
         e == cbLog[2].elapsed
     IN /\ cbLog' = Append(cbLog, EngineCall("system.update", system, d, e))
        /\ IF system = Mover
           THEN /\ query(<<PositionKind>>)
                /\ LET found == {id \in lastOp'.ret : getComponent(id, PositionKind) = Position}
                   IN posX' = FracAdd(posX, Frac(Cardinality(found) * d[1], d[2]))
           ELSE /\ query(Ascending(MeshKinds) \o <<PositionKind>>)
                /\ UNCHANGED posX
  /\ UNCHANGED fedSum

\* the system.update in progress returns and the loop of World.update goes on
worldUpdateNext ==
  /\ inCall => Cardinality(CallsOf(cbLog, "system.update")) = Len(frameLog)
  /\ updateNext
  /\ UNCHANGED appVars

\* this.render(), after which the arrow function returns to tick
engineRender ==
  /\ tickStack # <<>>
  /\ ~updating
  /\ Len(cbLog) >= 2
  /\ callbackReturn
  /\ cbLog' = Append(cbLog, EngineCall("render", Absent, cbLog[1].delta, cbLog[1].elapsed))
  /\ UNCHANGED <<posX, fedSum>>

\* ------------------------------------------------------------ Observer
\* The model follows one event name.  An element of the callback array is the
\* function given to on (w = 0), or the wrapper onceCallback that the w-th call
\* of once created around the function fn.
EventName == 1
Listener(fn, w) == [fn |-> fn, w |-> w]
NoListener == Listener(Absent, 0)

\* one emit call in its forEach loop: whether the array it iterates is still the
\* one stored under the event name, the index forEach visits next, the length
\* forEach read when it started, and the element whose call is executing
Frame(live, k, len, run) == [live |-> live, k |-> k, len |-> len, run |-> run]

\* Observer methods are called by the host while no emit is in progress, or by
\* the callback that is executing
CanObserve == IF emits = <<>> THEN TRUE ELSE emits[Len(emits)].run # NoListener

\* callbacks.indexOf(callback), 1-based, 0 for -1
ListenerIndex(cbs, l) ==
  IF \E i \in 1 .. Len(cbs) : cbs[i] = l
  THEN CHOOSE i \in 1 .. Len(cbs) : cbs[i] = l /\ \A j \in 1 .. (i - 1) : cbs[j] # l
  ELSE 0

\* callbacks.splice(index, 1)
Splice(cbs, index) ==
  [i \in 1 .. (Len(cbs) - 1) |-> IF i < index THEN cbs[i] ELSE cbs[i + 1]]

\* this.events after off(eventName, l)
EventsAfterOff(l) ==
  IF ~MapHas(events, EventName) THEN events
  ELSE LET callbacks == events[EventName]
           index == ListenerIndex(callbacks, l)
           left == IF index # 0 THEN Splice(callbacks, index) ELSE callbacks
       IN IF Len(left) = 0 THEN MapDelete(events, EventName)
          ELSE MapSet(events, EventName, left)

\* the loops in progress after off(eventName, l): an array that off deleted from
\* the map is empty and is no longer reached through the map
FramesAfterOff(frames_, l) ==
  IF frames_ = <<>> \/ MapHas(EventsAfterOff(l), EventName) THEN frames_
  ELSE [i \in 1 .. Len(frames_) |-> [frames_[i] EXCEPT !.live = FALSE]]

\* on(eventName, callback), and the push of once
Subscribe(l) ==
  events' = MapSet(events, EventName,
                   Append(IF MapHas(events, EventName) THEN events[EventName] ELSE <<>>, l))

\* on(eventName, cb)
obsOn(cb) ==
  /\ CanObserve
  /\ Subscribe(Listener(cb, 0))
  /\ UNCHANGED <<emits, heard>>

\* once(eventName, cb)
obsOnce(cb) ==
  /\ CanObserve
  /\ Subscribe(Listener(cb, Len(heard.once) + 1))
  /\ heard' = [heard EXCEPT !.once = Append(heard.once, 0)]
  /\ UNCHANGED emits

\* off(eventName, cb), also through the function on returned
obsOff(cb) ==
  /\ CanObserve
  /\ events' = EventsAfterOff(Listener(cb, 0))
  /\ emits' = FramesAfterOff(emits, Listener(cb, 0))
  /\ UNCHANGED heard

\* listenerCount(eventName)
listenerCount == IF MapHas(events, EventName) THEN Len(events[EventName]) ELSE 0

\* emit(eventName, data) up to the start of callbacks.forEach
obsEmit ==
  /\ CanObserve
  /\ IF ~MapHas(events, EventName)
     THEN UNCHANGED <<emits, heard>>
     ELSE /\ emits' = Append(emits, Frame(TRUE, 0, Len(events[EventName]), NoListener))
          /\ heard' = IF emits = <<>>
                      THEN [heard EXCEPT !.snap = events[EventName], !.calls = <<>>]
                      ELSE heard
  /\ UNCHANGED events

\* forEach visits the next index: the element found there is called, and the
\* loop is over when the index has reached the length read at the start or the
\* array holds nothing at this index and behind it
forEachNext ==
  /\ emits # <<>>
  /\ emits[Len(emits)].run = NoListener
  /\ LET f == emits[Len(emits)]
         callbacks == IF f.live THEN events[EventName] ELSE <<>>
     IN IF f.k < f.len /\ f.k < Len(callbacks)
        THEN LET callback == callbacks[f.k + 1]
             IN /\ emits' = [emits EXCEPT ![Len(emits)] = Frame(f.live, f.k + 1, f.len, callback)]
                /\ heard' = [heard EXCEPT
                               !.calls = IF Len(emits) = 1 THEN Append(@, callback) ELSE @,
                               !.once = IF callback.w # 0
                                        THEN [@ EXCEPT ![callback.w] = @ + 1] ELSE @]
        ELSE /\ emits' = SubSeq(emits, 1, Len(emits) - 1)
             /\ UNCHANGED heard
  /\ UNCHANGED events

\* the callback that is executing returns; a wrapper of once then calls
\* this.off(eventName, onceCallback) and returns
listenerReturn ==
  /\ emits # <<>>
  /\ emits[Len(emits)].run # NoListener
  /\ LET f == emits[Len(emits)]
         done == [emits EXCEPT ![Len(emits)] = Frame(f.live, f.k, f.len, NoListener)]
     IN IF f.run.w # 0
        THEN /\ events' = EventsAfterOff(f.run)
             /\ emits' = FramesAfterOff(done, f.run)
        ELSE /\ emits' = done
             /\ UNCHANGED events
  /\ UNCHANGED heard

\* the callback that is executing throws: the exception passes through a wrapper
\* of once and is caught in the function emit gave to forEach
listenerThrow ==
  /\ emits # <<>>
  /\ emits[Len(emits)].run # NoListener
  /\ LET f == emits[Len(emits)]
     IN emits' = [emits EXCEPT ![Len(emits)] = Frame(f.live, f.k, f.len, NoListener)]
  /\ UNCHANGED <<events, heard>>

\* ------------------------------------------------- ARStage, CameraFeed
\* this.demoEntity = null
NoEntity == 0 - 1

\* the name of the entity the stage creates, and its MeshComponent
DemoCube == 1
MeshComp == 2

\* new ARStage(); scene.background is null
NewStage ==
  [cameraFeed |-> Absent, ambientLight |-> FALSE, directionalLight |-> FALSE,
   demoEntity |-> NoEntity, background |-> FALSE]

\* new CameraFeed(...) followed by start(), which runs up to the getUserMedia it
\* awaits; pc is the promise start() waits for: "media" (getUserMedia), "video"
\* (the video element is ready), or "done" once onInit has run to its end
NewFeed ==
  [stream |-> FALSE, videoElement |-> FALSE, texture |-> FALSE, isActive |-> FALSE,
   pc |-> "media"]

\* CameraFeed.stop()
FeedStop(f) ==
  [f EXCEPT !.stream = FALSE, !.videoElement = FALSE, !.texture = FALSE, !.isActive = FALSE]

\* the hook calls on the ARStage among the hook calls of log
CallsHook(log, name) ==
  \E i \in 1 .. Len(log) : log[i].hook = name /\ log[i].obj = ArStage

\* ARStage.onDestroy(engine) where the SceneManager call calls it, followed by the
\* part of ARStage.onInit(engine) in front of its await where the call calls it
ArHooks ==
  LET left == CallsHook(hookLog', "onDestroy")
      entered == CallsHook(hookLog', "onInit")
      stopped == IF left /\ arStage.cameraFeed # Absent
                 THEN [feeds EXCEPT ![arStage.cameraFeed] = FeedStop(@)]
                 ELSE feeds
      cleaned == IF left THEN NewStage ELSE arStage
  IN /\ feeds' = IF entered THEN Append(stopped, NewFeed) ELSE stopped
     /\ arStage' = IF entered THEN [cleaned EXCEPT !.cameraFeed = Len(stopped) + 1]
                   ELSE cleaned
     /\ IF left /\ arStage.demoEntity # NoEntity
        THEN /\ entities' = entities \ {arStage.demoEntity}
             /\ components' = MapDelete(components, arStage.demoEntity)
             /\ queryCache' = clearQueryCache
             /\ UNCHANGED <<nextId, names, active>>
        ELSE UNCHANGED storeVars

\* sceneManager.switchTo('ar')
arSwitchTo == switchTo(ArName) /\ ArHooks

\* sceneManager.dispose()
arDispose == dispose /\ ArHooks

\* ARStage.onInit behind its await: the texture is read from this.cameraFeed when
\* start() succeeded (a TypeError on null is caught), then setupLighting and
\* createDemoCube run
InitRest(f, started) ==
  /\ arStage' = [arStage EXCEPT
                   !.background = IF started /\ arStage.cameraFeed # Absent
                                  THEN feeds'[arStage.cameraFeed].texture ELSE @,
                   !.ambientLight = TRUE,
                   !.directionalLight = TRUE,
                   !.demoEntity = nextId]
  /\ nextId' = nextId + 1
  /\ names' = MapSet(names, nextId, DemoCube)
  /\ active' = MapSet(active, nextId, TRUE)
  /\ entities' = entities \cup {nextId}
  /\ components' = MapSet(components, nextId,
                          MapSet(MapSet(EmptyMap, PositionKind, Position),
                                 KindOf(MeshComp), MeshComp))
  /\ queryCache' = clearQueryCache
  /\ lastOp' = Call("addComponent", {}, "none", {})
  /\ hookLog' = <<Hook("onAttach", MeshComp, entities', components', systems)>>

\* getUserMedia resolves: start() stores the stream, creates the video element
\* and waits for it to be ready
mediaGranted(f) ==
  /\ f \in DOMAIN feeds
  /\ feeds[f].pc = "media"
  /\ feeds' = [feeds EXCEPT ![f] = [@ EXCEPT !.stream = TRUE, !.videoElement = TRUE,
                                              !.pc = "video"]]
  /\ UNCHANGED <<arStage, storeVars, lastOp, hookLog>>

\* getUserMedia rejects: start() rethrows and onInit goes on without the feed
mediaDenied(f) ==
  /\ f \in DOMAIN feeds
  /\ feeds[f].pc = "media"
  /\ feeds' = [feeds EXCEPT ![f] = [@ EXCEPT !.pc = "done"]]
  /\ InitRest(f, FALSE)

\* the video element, still attached, is ready: start() creates the texture,
\* sets isActive and returns, and onInit goes on
videoReady(f) ==
  /\ f \in DOMAIN feeds
  /\ feeds[f].pc = "video"
  /\ feeds[f].videoElement
  /\ feeds' = [feeds EXCEPT ![f] = [@ EXCEPT !.texture = TRUE, !.isActive = TRUE,
                                              !.pc = "done"]]
  /\ InitRest(f, TRUE)

\* the video element reports an error: start() rethrows and onInit goes on
videoFailed(f) ==
  /\ f \in DOMAIN feeds
  /\ feeds[f].pc = "video"
  /\ feeds[f].videoElement
  /\ feeds' = [feeds EXCEPT ![f] = [@ EXCEPT !.pc = "done"]]
  /\ InitRest(f, FALSE)

\* ------------------------------------------------------ specifications
Init ==
  /\ nextId = 0
  /\ names = EmptyMap
  /\ active = EmptyMap
  /\ entities = {}
  /\ components = EmptyMap
  /\ queryCache = EmptyMap
  /\ systems = <<>>
  /\ enabled = [s \in Systems |-> TRUE]
  /\ updating = FALSE
  /\ iterIdx = 0
  /\ inCall = FALSE
  /\ frameLog = <<>>
  /\ frameStart = {}
  /\ frameAdded = {}
  /\ frameRemoved = {}
  /\ frameDup = FALSE
  /\ addCount = 0
  /\ stages = EmptyMap
  /\ currentStage = Absent
  /\ stageLive = {}
  /\ lastOp = Call("constructor", {}, "none", {})
  /\ hookLog = <<>>
  /\ now = 0
  /\ frames = 0
  /\ pending = {}
  /\ deliverQ = <<>>
  /\ nextRaf = 1
  /\ frameTime = 0
  /\ startTime = now
  /\ lastFrameTime = now
  /\ delta = Frac(0, 1)
  /\ elapsed = Frac(0, 1)
  /\ frameCount = 0
  /\ targetFPS = DefaultFPS
  /\ minFrameTime = MinFrameTime(targetFPS)
  /\ fps = 0
  /\ fpsAccumulator = 0
  /\ fpsFrameCount = 0
  /\ rafId = Absent
  /\ updateCallback = Absent
  /\ isRunning = FALSE
  /\ tickStack = <<>>
  /\ cbInFrame = 0
  /\ loopStart = now
  /\ deltaSum = Cut
  /\ timeOp = TimeOp("constructor", FALSE, FALSE, Absent, FALSE, FALSE, now)
  /\ cbLog = <<>>
  /\ posX = Frac(0, 1)
  /\ fedSum = Frac(0, 1)
  /\ events = EmptyMap
  /\ emits = <<>>
  /\ heard = [snap |-> <<>>, calls |-> <<>>, once |-> <<>>]
  /\ arStage = NewStage
  /\ feeds = <<>>

\* the model keeps at most n distinct queries cached
CacheRoom(ks, n) ==
  MapHas(queryCache, CacheKey(ks)) \/ Cardinality(DOMAIN queryCache) < n

\* the ids callers pass to the World: the registered ones and one that is not
\* registered (the World treats all unregistered ids alike)
IdArgs ==
  entities \cup (IF CallIds \subseteq entities THEN {}
                 ELSE {CHOOSE id \in CallIds \ entities :
                         \A other \in CallIds \ entities : id <= other})

StoreCalls ==
  \/ Entity /\ UNCHANGED <<schedVars, stageVars, timeVars, appVars, obsVars, arVars>>
  \/ \E e \in DOMAIN active : addEntity(e) /\ UNCHANGED <<schedVars, stageVars, timeVars, appVars, obsVars, arVars>>
  \/ \E id \in IdArgs : removeEntity(id) /\ UNCHANGED <<schedVars, stageVars, timeVars, appVars, obsVars, arVars>>
  \/ \E id \in IdArgs, c \in Comps : addComponent(id, c) /\ UNCHANGED <<schedVars, stageVars, timeVars, appVars, obsVars, arVars>>
  \/ \E id \in IdArgs, k \in Kinds : removeComponent(id, k) /\ UNCHANGED <<schedVars, stageVars, timeVars, appVars, obsVars, arVars>>
  \/ clear /\ UNCHANGED <<enabled, updating, iterIdx, inCall, frameLog, frameStart,
                          frameAdded, frameRemoved, frameDup, addCount, stageVars, timeVars, appVars, obsVars, arVars>>

\* the component store driven without queries: the cache stays empty
SpecAttach == Init /\ [][StoreCalls]_vars

\* the component store: entities stay active, queries for everything and for one
\* of the first StoreKinds kinds
NextStore ==
  \/ StoreCalls
  \/ \E ks \in StoreLists : query(ks) /\ UNCHANGED <<schedVars, stageVars, timeVars, appVars, obsVars, arVars>>

SpecStore == Init /\ [][NextStore]_vars

\* the argument lists of two different kinds among the first StoreKinds + 1 kinds
PairLists ==
  {<<a, b>> : a, b \in 1 .. (StoreKinds + 1)} \ {<<a, a>> : a \in 1 .. (StoreKinds + 1)}

\* the component store queried for pairs of kinds, in either order
NextPairs ==
  \/ StoreCalls
  \/ \E ks \in PairLists : query(ks) /\ UNCHANGED <<schedVars, stageVars, timeVars, appVars, obsVars, arVars>>

SpecPairs == Init /\ [][NextPairs]_vars

\* the World as the host drives it between frames: the component store with the
\* first WorldComps components, the query for all entities, and the system list
\* with the first WorldSystems systems, added WorldSystems times in all and each
\* registered at most once at a time
NextWorld ==
  \/ Entity /\ UNCHANGED <<schedVars, stageVars, timeVars, appVars, obsVars, arVars>>
  \/ \E e \in DOMAIN active : addEntity(e) /\ UNCHANGED <<schedVars, stageVars, timeVars, appVars, obsVars, arVars>>
  \/ \E id \in IdArgs : removeEntity(id) /\ UNCHANGED <<schedVars, stageVars, timeVars, appVars, obsVars, arVars>>
  \/ \E id \in IdArgs, c \in 1 .. WorldComps :
       addComponent(id, c) /\ UNCHANGED <<schedVars, stageVars, timeVars, appVars, obsVars, arVars>>
  \/ \E id \in IdArgs, k \in Kinds :
       removeComponent(id, k) /\ UNCHANGED <<schedVars, stageVars, timeVars, appVars, obsVars, arVars>>
  \/ query(<<>>) /\ UNCHANGED <<schedVars, stageVars, timeVars, appVars, obsVars, arVars>>
  \/ \E s \in 1 .. WorldSystems :
       /\ addCount < WorldSystems
       /\ IndexOf(systems, s) = 0
       /\ addSystem(s)
       /\ UNCHANGED <<storeVars, stageVars, timeVars, appVars, obsVars, arVars>>
  \/ \E s \in 1 .. (WorldSystems + 1) :
       removeSystem(s) /\ UNCHANGED <<storeVars, stageVars, timeVars, appVars, obsVars, arVars>>
  \/ clear /\ UNCHANGED <<enabled, updating, iterIdx, inCall, frameLog, frameStart,
                          frameAdded, frameRemoved, frameDup, addCount, stageVars, timeVars, appVars, obsVars, arVars>>

SpecWorld == Init /\ [][NextWorld]_vars

\* the entity life cycle: entities are constructed with the default name or a
\* name of the host, registered, removed, and the World is cleared
NextEntity ==
  \/ Entity /\ UNCHANGED <<schedVars, stageVars, timeVars, appVars, obsVars, arVars>>
  \/ \E n \in EntityNames : EntityNamed(n) /\ UNCHANGED <<schedVars, stageVars, timeVars, appVars, obsVars, arVars>>
  \/ \E e \in DOMAIN active : addEntity(e) /\ UNCHANGED <<schedVars, stageVars, timeVars, appVars, obsVars, arVars>>
  \/ \E id \in IdArgs : removeEntity(id) /\ UNCHANGED <<schedVars, stageVars, timeVars, appVars, obsVars, arVars>>
  \/ \E id \in IdArgs, c \in 1 .. WorldComps :
       addComponent(id, c) /\ UNCHANGED <<schedVars, stageVars, timeVars, appVars, obsVars, arVars>>
  \/ clear /\ UNCHANGED <<enabled, updating, iterIdx, inCall, frameLog, frameStart,
                          frameAdded, frameRemoved, frameDup, addCount, stageVars, timeVars, appVars, obsVars, arVars>>

SpecEntity == Init /\ [][NextEntity]_vars

\* the query engine: entities stay active
NextQuery ==
  \/ StoreCalls
  \/ \E ks \in KindLists :
       CacheRoom(ks, MaxCached) /\ query(ks) /\ UNCHANGED <<schedVars, stageVars, timeVars, appVars, obsVars, arVars>>

SpecQuery == Init /\ [][NextQuery]_vars

\* the query engine with Entity.activate / Entity.deactivate; a toggle that does
\* not change the flag changes nothing and is left out
Next ==
  \/ NextQuery
  \/ \E e \in DOMAIN active :
       active[e] /\ deactivate(e) /\ UNCHANGED <<schedVars, stageVars, timeVars, appVars, obsVars, arVars>>
  \/ \E e \in DOMAIN active :
       (~active[e]) /\ activate(e) /\ UNCHANGED <<schedVars, stageVars, timeVars, appVars, obsVars, arVars>>

Spec == Init /\ [][Next]_vars

\* the scheduler: systems are added and removed by the host and by the system
\* being updated; between frames the host disables systems that are registered
\* and enables disabled ones (a disabled system stays disabled when it is removed)
NextSched ==
  \/ \E s \in Systems :
       addCount < MaxAdds /\ addSystem(s) /\ UNCHANGED <<storeVars, stageVars, timeVars, appVars, obsVars, arVars>>
  \/ \E s \in Systems : removeSystem(s) /\ UNCHANGED <<storeVars, stageVars, timeVars, appVars, obsVars, arVars>>
  \/ \E s \in Systems :
       (~updating) /\ (~enabled[s]) /\ enable(s) /\ UNCHANGED <<storeVars, stageVars, timeVars, appVars, obsVars, arVars>>
  \/ \E s \in Systems :
       /\ (~updating) /\ enabled[s] /\ IndexOf(systems, s) # 0
       /\ disable(s)
       /\ UNCHANGED <<storeVars, stageVars, timeVars, appVars, obsVars, arVars>>
  \/ updateBegin /\ UNCHANGED <<storeVars, stageVars, timeVars, appVars, obsVars, arVars>>
  \/ updateNext /\ UNCHANGED <<storeVars, stageVars, timeVars, appVars, obsVars, arVars>>

SpecSched == Init /\ [][NextSched]_vars

\* a frame in which the first system updated writes to the store and the systems
\* updated after it read: the host registers the systems, constructs entities
\* and queries between frames
NextFrame ==
  \/ \E s \in 1 .. WorldSystems :
       /\ ~updating
       /\ addCount < WorldSystems
       /\ IndexOf(systems, s) = 0
       /\ addSystem(s)
       /\ UNCHANGED <<storeVars, stageVars, timeVars, appVars, obsVars, arVars>>
  \/ (~updating) /\ Entity /\ UNCHANGED <<schedVars, stageVars, timeVars, appVars, obsVars, arVars>>
  \/ \E ks \in StoreLists :
       /\ (~updating) \/ Len(frameLog) >= 2
       /\ query(ks)
       /\ UNCHANGED <<schedVars, stageVars, timeVars, appVars, obsVars, arVars>>
  \/ updateBegin /\ UNCHANGED <<storeVars, stageVars, timeVars, appVars, obsVars, arVars>>
  \/ updateNext /\ UNCHANGED <<storeVars, stageVars, timeVars, appVars, obsVars, arVars>>
  \/ \E e \in DOMAIN active :
       updating /\ Len(frameLog) = 1 /\ addEntity(e) /\ UNCHANGED <<schedVars, stageVars, timeVars, appVars, obsVars, arVars>>
  \/ \E id \in IdArgs :
       updating /\ Len(frameLog) = 1 /\ removeEntity(id) /\ UNCHANGED <<schedVars, stageVars, timeVars, appVars, obsVars, arVars>>
  \/ \E id \in IdArgs, c \in 1 .. WorldComps :
       /\ updating /\ Len(frameLog) = 1
       /\ addComponent(id, c)
       /\ UNCHANGED <<schedVars, stageVars, timeVars, appVars, obsVars, arVars>>
  \/ \E id \in IdArgs, k \in Kinds :
       /\ updating /\ Len(frameLog) = 1
       /\ removeComponent(id, k)
       /\ UNCHANGED <<schedVars, stageVars, timeVars, appVars, obsVars, arVars>>

SpecFrame == Init /\ [][NextFrame]_vars

\* a step inside the frame callback, or of the host while no callback executes
InCallback == tickStack # <<>>

\* the frame clock: the host starts animation frames and runs their callbacks; the
\* host between callbacks, and the frame callback while it executes, call start,
\* stop, reset and the targetFPS setter
NextTime ==
  \/ \E d \in FrameIntervals : frames < MaxFrames /\ hostFrame(d) /\ UNCHANGED <<worldVars, appVars, obsVars, arVars>>
  \/ nextRaf <= MaxRequests /\ tickDeliver /\ UNCHANGED <<worldVars, appVars, obsVars, arVars>>
  \/ nextRaf <= MaxRequests /\ callbackReturn /\ UNCHANGED <<worldVars, appVars, obsVars, arVars>>
  \/ \E cb \in Callbacks :
       /\ nextRaf <= MaxRequests
       /\ isRunning \/ Capped(0) \/ Len(tickStack) < MaxDepth
       /\ timeStart(cb)
       /\ UNCHANGED <<worldVars, appVars, obsVars, arVars>>
  \/ timeStop /\ UNCHANGED <<worldVars, appVars, obsVars, arVars>>
  \/ timeReset /\ UNCHANGED <<worldVars, appVars, obsVars, arVars>>
  \/ \E rate \in TargetRates :
       rate # targetFPS /\ setTargetFPS(rate) /\ UNCHANGED <<worldVars, appVars, obsVars, arVars>>

SpecTime == Init /\ [][NextTime]_vars

\* the frame clock with callbacks that take time: performance.now() read inside
\* the callback is later than the timestamp of the animation frame
NextLag ==
  \/ NextTime
  \/ \E d \in CallbackTimes : now = frameTime /\ elapse(d) /\ UNCHANGED <<worldVars, appVars, obsVars, arVars>>

SpecLag == Init /\ [][NextLag]_vars

\* the assembled application: the host registers one entity holding the Position
\* and the systems, registers and enters stages, and starts the Engine, whose
\* frame callback updates the World and renders
AppReady ==
  /\ \E id \in entities : getComponent(id, PositionKind) = Position
  /\ IndexOf(systems, Mover) # 0

AppIdle == tickStack = <<>> /\ deliverQ = <<>>

NextApp ==
  \/ /\ updateCallback = Absent /\ nextId = 0
     /\ Entity
     /\ UNCHANGED <<schedVars, stageVars, timeVars, appVars, obsVars, arVars>>
  \/ \E e \in DOMAIN active :
       /\ updateCallback = Absent /\ e \notin entities
       /\ addEntity(e)
       /\ UNCHANGED <<schedVars, stageVars, timeVars, appVars, obsVars, arVars>>
  \/ \E id \in entities :
       /\ updateCallback = Absent /\ ~hasComponent(id, PositionKind)
       /\ addComponent(id, Position)
       /\ UNCHANGED <<schedVars, stageVars, timeVars, appVars, obsVars, arVars>>
  \/ \E s \in {Mover, RenderSys} :
       /\ updateCallback = Absent /\ IndexOf(systems, s) = 0
       /\ addSystem(s)
       /\ UNCHANGED <<storeVars, stageVars, timeVars, appVars, obsVars, arVars>>
  \/ /\ updateCallback = Absent /\ AppReady /\ stages = EmptyMap
     /\ registerStage(ArName, ArStage)
       /\ UNCHANGED <<storeVars, schedVars, timeVars, appVars, obsVars, arVars>>
  \/ /\ AppIdle /\ AppReady /\ MapHas(stages, ArName) /\ currentStage = Absent
     /\ switchTo(ArName)
       /\ UNCHANGED <<storeVars, schedVars, timeVars, appVars, obsVars, arVars>>
  \/ /\ AppIdle /\ AppReady /\ nextRaf <= MaxRequests
     /\ engineStart
     /\ UNCHANGED <<worldVars, obsVars, arVars>>
  \/ AppIdle /\ isRunning /\ engineStop /\ UNCHANGED <<worldVars, obsVars, arVars>>
  \/ \E rate \in TargetRates :
       /\ AppIdle /\ rate # targetFPS
       /\ setTargetFPS(rate)
       /\ UNCHANGED <<worldVars, appVars, obsVars, arVars>>
  \/ \E d \in FrameIntervals :
       frames < MaxFrames /\ hostFrame(d) /\ UNCHANGED <<worldVars, appVars, obsVars, arVars>>
  \/ nextRaf <= MaxRequests /\ engineTick /\ UNCHANGED <<worldVars, obsVars, arVars>>
  \/ engineUpdate /\ UNCHANGED <<storeVars, stageVars, timeVars, obsVars, arVars>>
  \/ systemUpdate /\ UNCHANGED <<schedVars, stageVars, timeVars, obsVars, arVars>>
  \/ worldUpdateNext /\ UNCHANGED <<storeVars, stageVars, timeVars, obsVars, arVars>>
  \/ nextRaf <= MaxRequests /\ engineRender /\ UNCHANGED <<worldVars, obsVars, arVars>>

SpecApp == Init /\ [][NextApp]_vars

\* the event emitter: the host and the callbacks that execute subscribe,
\* unsubscribe and emit; a callback returns or throws
ObsRest == <<worldVars, timeVars, appVars, arVars>>

NextObserver ==
  \/ \E cb \in ListenerFns :
       /\ listenerCount < MaxSubs
       /\ obsOn(cb)
       /\ UNCHANGED ObsRest
  \/ \E cb \in ListenerFns :
       /\ listenerCount < MaxSubs /\ Len(heard.once) < MaxOnce
       /\ obsOnce(cb)
       /\ UNCHANGED ObsRest
  \/ \E cb \in ListenerFns : obsOff(cb) /\ UNCHANGED ObsRest
  \/ /\ Len(emits) < MaxEmitDepth
     /\ \A w \in DOMAIN heard.once : heard.once[w] < MaxOnceCalls
     /\ obsEmit
     /\ UNCHANGED ObsRest
  \/ forEachNext /\ UNCHANGED ObsRest
  \/ listenerReturn /\ UNCHANGED ObsRest
  \/ listenerThrow /\ UNCHANGED ObsRest

SpecObserver == Init /\ [][NextObserver]_vars

\* the AR stage under the stage machine: the application registers the stage,
\* switches to it and disposes; the host settles the promises start() waits for
ArRest == <<schedVars, timeVars, appVars, obsVars>>

NextAR ==
  \/ /\ ~MapHas(stages, ArName)
     /\ registerStage(ArName, ArStage)
     /\ UNCHANGED <<storeVars, arVars, ArRest>>
  \/ Len(feeds) < MaxInits /\ arSwitchTo /\ UNCHANGED ArRest
  \/ arDispose /\ UNCHANGED ArRest
  \/ \E f \in 1 .. MaxInits : mediaGranted(f) /\ UNCHANGED <<stageVars, ArRest>>
  \/ \E f \in 1 .. MaxInits :
       nextId < MaxEntities /\ mediaDenied(f) /\ UNCHANGED <<stageVars, ArRest>>
  \/ \E f \in 1 .. MaxInits :
       nextId < MaxEntities /\ videoReady(f) /\ UNCHANGED <<stageVars, ArRest>>
  \/ \E f \in 1 .. MaxInits :
       nextId < MaxEntities /\ videoFailed(f) /\ UNCHANGED <<stageVars, ArRest>>

SpecAR == Init /\ [][NextAR]_vars

\* the stage machine
NextStage ==
  \/ \E n \in StageNames, st \in StageObjs :
       registerStage(n, st) /\ UNCHANGED <<storeVars, schedVars, timeVars, appVars, obsVars, arVars>>
  \/ \E n \in StageNames : switchTo(n) /\ UNCHANGED <<storeVars, schedVars, timeVars, appVars, obsVars, arVars>>
  \/ \E d, e \in StageTimes :
       sceneUpdate(d, e) /\ UNCHANGED <<storeVars, schedVars, timeVars, appVars, obsVars, arVars>>
  \/ dispose /\ UNCHANGED <<storeVars, schedVars, timeVars, appVars, obsVars, arVars>>

SpecStage == Init /\ [][NextStage]_vars

\* ---------------------------------------------------------- properties
\* the entities a query for the kinds ks has to return
Matching(ks) ==
  {e \in entities : /\ active[e]
                    /\ e \in DOMAIN components
                    /\ \A n \in 1 .. Len(ks) : ks[n] \in DOMAIN components[e]}

\* C1: whatever calls came before, query(K1..Kn) returns exactly the registered,
\* active entities whose component map holds every Ki.
C1_QueryReturnsMatching ==
  [][\A ks \in KindLists : query(ks) => lastOp'.ret = Matching(ks)']_vars

\* C2: on return from addEntity, removeEntity, a successful addComponent and a
\* removeComponent that removed a component, the query cache holds no entry.
C2_MutationClearsCache ==
  (\/ lastOp.op \in {"addEntity", "removeEntity"}
   \/ (lastOp.op = "addComponent" /\ lastOp.err = "none")
   \/ (lastOp.op = "removeComponent" /\ hookLog # <<>>))
  => DOMAIN queryCache = {}

\* C3: the query that follows deactivate() of a registered entity having the kinds
\* does not return it, the query that follows activate() returns it, and a toggle
\* leaves the component store alone.
C3_QueryTracksActiveFlag ==
  [][/\ \A ks \in KindLists, e \in entities :
          (/\ lastOp.self = {e}
           /\ \A n \in 1 .. Len(ks) : hasComponent(e, ks[n])
           /\ query(ks))
          => /\ lastOp.op = "deactivate" => e \notin lastOp'.ret
             /\ lastOp.op = "activate" => e \in lastOp'.ret
     /\ \A e \in DOMAIN active :
          (deactivate(e) \/ activate(e)) => components' = components]_vars

\* C8: addComponent for an id that is not registered raises EntityNotFound, calls
\* no hook and changes nothing in the World.
C8_AddComponentUnknownEntity ==
  [][\A id \in CallIds \ entities, c \in Comps :
       (lastOp'.op = "addComponent" /\ addComponent(id, c))
       => /\ lastOp'.err = "EntityNotFound"
          /\ hookLog' = <<>>
          /\ UNCHANGED <<entities, components, systems, queryCache>>]_vars

C8_Witness ==
  /\ lastOp.op = "addComponent"
  /\ lastOp.err = "EntityNotFound"
  /\ entities # {}
  /\ nextId = MaxEntities
  /\ DOMAIN queryCache # {}

\* C9: removeEntity(id) of a registered entity calls onDetach once on each of its
\* components while the entity and its map are still there; afterwards the count
\* is one less, lookups of id find nothing and no query result holds id; after
\* every call, no cached result holds an id that is not registered.
C9_RemoveEntityDetachesAll ==
  [][/\ \A key \in DOMAIN queryCache' : queryCache'[key] \subseteq entities'
     /\ \A id \in entities :
          (lastOp'.op = "removeEntity" /\ removeEntity(id))
          => /\ Len(hookLog') = Cardinality(DOMAIN components[id])
             /\ \A k \in DOMAIN components[id] :
                  Cardinality({i \in 1 .. Len(hookLog') :
                                 /\ hookLog'[i].hook = "onDetach"
                                 /\ hookLog'[i].obj = components[id][k]}) = 1
             /\ \A i \in 1 .. Len(hookLog') :
                  id \in hookLog'[i].ents /\ id \in hookLog'[i].maps
             /\ getEntityCount' = getEntityCount - 1
             /\ \A k \in Kinds : getComponent(id, k)' = Absent /\ ~hasComponent(id, k)'
             /\ \A key \in DOMAIN queryCache' : id \notin queryCache'[key]
             /\ \A ks \in KindLists : id \notin Matching(ks)']_vars

C9_Witness ==
  /\ lastOp.op = "removeEntity"
  /\ Len(hookLog) = NumKinds
  /\ \E id \in hookLog[1].ents : id \notin entities
  /\ entities # {}

\* C10: the ids that have a component map are the registered ids, so a lookup for
\* an id that is not registered finds nothing.
C10_MapsMatchRegistry ==
  /\ DOMAIN components = entities
  /\ \A id \in CallIds \ entities, k \in Kinds :
       getComponent(id, k) = Absent /\ ~hasComponent(id, k)

C10_Witness ==
  /\ lastOp.op \in {"removeEntity", "clear"}
  /\ hookLog # <<>>
  /\ \E id \in hookLog[1].ents : id \notin entities /\ id \notin DOMAIN components

QueryResult(ks) ==
  IF MapHas(queryCache, CacheKey(ks)) THEN queryCache[CacheKey(ks)] ELSE ComputeQuery(ks)

\* ps is ks in another order
IsReordering(ks, ps) ==
  /\ ps # ks
  /\ Len(ps) = Len(ks)
  /\ \A k \in Kinds : Cardinality({i \in 1 .. Len(ps) : ps[i] = k})
                       = Cardinality({i \in 1 .. Len(ks) : ks[i] = k})

\* the pairs of argument lists of the specification that differ in order only
Reorderings == {pr \in PairLists \X PairLists : IsReordering(pr[1], pr[2])}

\* C12: in every state, query(ks) and query(ps), ps being ks in another order,
\* return the same set, whichever is called; a query that has returned left its
\* result in the cache, so the other order, called next, returns that result.
C12_QueryOrderIndependent ==
  /\ \A pr \in Reorderings : QueryResult(pr[1]) = QueryResult(pr[2])
  /\ lastOp.op = "query" => \E key \in DOMAIN queryCache : queryCache[key] = lastOp.ret

\* a query for two different kinds has returned a non-empty set from the cache
C12_Witness ==
  /\ lastOp.op = "query"
  /\ lastOp.ret # {}
  /\ \E key \in DOMAIN queryCache :
       /\ Len(key) = 2
       /\ key[1] # key[2]
       /\ queryCache[key] = lastOp.ret
       /\ \E e \in lastOp.ret : ~hasComponent(e, key[1])

\* C13: two cached queries whose argument lists hold the same kinds share one
\* cache entry.
C13_CacheKeyDeduplicated ==
  \A key1, key2 \in DOMAIN queryCache :
    {key1[i] : i \in 1 .. Len(key1)} = {key2[i] : i \in 1 .. Len(key2)} => key1 = key2

\* the (entity, kind) slots of the component store that hold component c
SlotsOf(c) ==
  {slot \in (DOMAIN components) \X Kinds :
     MapHas(components[slot[1]], slot[2]) /\ components[slot[1]][slot[2]] = c}

\* C14: clear() first calls onDestroy on every element of the system list, in
\* list order and with the list still in place, then calls onDetach once for
\* every stored component, with the system list empty and the registry and the
\* store still in place, and then leaves the list, the store, the registry and
\* the cache empty.
C14_ClearOrder ==
  [][(lastOp'.op = "clear" /\ clear)
     => LET n == Len(systems)
            h == hookLog'
        IN /\ Len(h) >= n
           /\ \A i \in 1 .. n :
                /\ h[i].hook = "onDestroy"
                /\ h[i].obj = systems[i].sys
                /\ h[i].syss = SystemIds(systems)
           /\ \A i \in (n + 1) .. Len(h) :
                /\ h[i].hook = "onDetach"
                /\ h[i].syss = <<>>
                /\ h[i].ents = entities
                /\ h[i].maps = DOMAIN components
           /\ \A c \in Comps :
                Cardinality({i \in (n + 1) .. Len(h) : h[i].obj = c})
                  = Cardinality(SlotsOf(c))
           /\ systems' = <<>>
           /\ DOMAIN components' = {}
           /\ entities' = {}
           /\ DOMAIN queryCache' = {}]_vars

\* clear() has destroyed two systems and detached the components of two entities
C14_Witness ==
  /\ lastOp.op = "clear"
  /\ Len(hookLog) >= 4
  /\ hookLog[2].hook = "onDestroy"
  /\ hookLog[1].obj # hookLog[2].obj
  /\ hookLog[Len(hookLog) - 1].hook = "onDetach"
  /\ Cardinality(hookLog[Len(hookLog)].ents) >= 2
  /\ hookLog[Len(hookLog)].syss = <<>>
  /\ systems = <<>>

\* C15: when clear() has returned the entity count is 0 and the system list is
\* empty, and as long as no entity is registered every query returns the empty set.
C15_ClearEmptiesWorld ==
  /\ lastOp.op = "clear" => getEntityCount = 0 /\ systems = <<>>
  /\ entities = {} => \A ks \in KindLists : QueryResult(ks) = {}

\* clear() has returned from a World that had systems and entities with
\* components, every entity that can exist having been constructed
C15_Witness ==
  /\ lastOp.op = "clear"
  /\ Len(hookLog) >= 2
  /\ hookLog[1].hook = "onDestroy"
  /\ hookLog[Len(hookLog)].hook = "onDetach"
  /\ nextId = MaxEntities
  /\ getEntityCount = 0

\* C16: the ids issued so far are 0 .. nextId - 1 and nextId never decreases; a
\* constructor call issues exactly one id, greater than every id issued before
\* whatever was removed or cleared and whatever the name, the new entity is
\* active and carries the name given, and the entities that exist keep theirs.
C16_EntityIdsFresh ==
  [][/\ nextId' >= nextId
     /\ DOMAIN active' = 0 .. (nextId' - 1)
     /\ DOMAIN names' = DOMAIN active'
     /\ lastOp'.op = "new Entity"
        => /\ Cardinality(DOMAIN active' \ DOMAIN active) = 1
           /\ \A id \in DOMAIN active' \ DOMAIN active :
                /\ \A old \in DOMAIN active : old < id
                /\ active'[id]
                /\ \A n \in EntityNames \cup {DefaultName(id)} :
                     EntityNamed(n) => names'[id] = n
           /\ \A old \in DOMAIN active :
                names'[old] = names[old] /\ active'[old] = active[old]]_vars

\* an entity has been constructed with the name of an earlier entity that is not
\* registered
C16_Witness ==
  /\ lastOp.op = "new Entity"
  /\ nextId = MaxEntities
  /\ \E old \in DOMAIN names :
       /\ old < nextId - 1
       /\ names[old] = names[nextId - 1]
       /\ old \notin entities

\* number of update invocations of system s in the update call in progress
Updates(s) == Cardinality({i \in 1 .. Len(frameLog) : frameLog[i].sys = s})

\* C4: when an update call returns, every system that was registered and enabled
\* when it started and was not removed during it has been updated exactly once,
\* and no system more than once (stated for calls during which no system was in
\* the list twice).
C4_UpdateVisitsEachOnce ==
  [][(updating /\ ~updating' /\ ~frameDup)
     => \A s \in Systems :
          /\ Updates(s) <= 1
          /\ s \in frameStart \ frameRemoved => Updates(s) = 1]_vars

\* a was added to the scheduler's order before b
RunsBefore(a, b) ==
  \/ Priority(a.sys) < Priority(b.sys)
  \/ Priority(a.sys) = Priority(b.sys) /\ a.stamp < b.stamp

\* C5: an update call during which no system is added or removed invokes the
\* enabled systems of the list, each before every one of greater priority and
\* before every one of equal priority that was added later.
C5_UpdateOrder ==
  [][(updating /\ ~updating' /\ frameAdded = {} /\ frameRemoved = {})
     => /\ frameLog = SelectSeq(systems, LAMBDA x : enabled[x.sys])
        /\ \A i, j \in 1 .. Len(frameLog) :
             i < j => RunsBefore(frameLog[i], frameLog[j])]_vars

C5_Witness ==
  /\ updating
  /\ iterIdx = Len(systems)
  /\ frameAdded = {}
  /\ frameRemoved = {}
  /\ Len(frameLog) = 3
  /\ \E i, j \in 1 .. Len(frameLog) :
       /\ i < j
       /\ Priority(frameLog[i].sys) = Priority(frameLog[j].sys)
       /\ frameLog[i].sys > frameLog[j].sys
  /\ Priority(frameLog[1].sys) < Priority(frameLog[3].sys)

\* C6: a switchTo to a registered name calls onDestroy once on the stage that was
\* current, if there was one, then onInit once on the requested stage, and makes
\* the requested stage current, also when it already was.
C6_SwitchDestroysThenInits ==
  [][\A n \in DOMAIN stages :
       (lastOp'.op = "switchTo" /\ switchTo(n))
       => LET destroys == {i \in 1 .. Len(hookLog') : hookLog'[i].hook = "onDestroy"}
              inits == {i \in 1 .. Len(hookLog') : hookLog'[i].hook = "onInit"}
          IN /\ lastOp'.err = "none"
             /\ currentStage' = stages[n]
             /\ Len(hookLog') = Cardinality(destroys) + Cardinality(inits)
             /\ Cardinality(inits) = 1
             /\ \A i \in inits : hookLog'[i].obj = stages[n]
             /\ Cardinality(destroys) = IF currentStage = Absent THEN 0 ELSE 1
             /\ \A i \in destroys :
                  /\ hookLog'[i].obj = currentStage
                  /\ \A j \in inits : i < j]_vars

C6_Witness ==
  /\ lastOp.op = "switchTo"
  /\ lastOp.err = "none"
  /\ Len(hookLog) = 2
  /\ hookLog[1].hook = "onDestroy"
  /\ hookLog[1].obj = hookLog[2].obj
  /\ currentStage = hookLog[2].obj

\* C7: a switchTo to a name that is not registered raises StageNotFound, calls no
\* hook and leaves the current stage and the registry as they were.
C7_SwitchUnknownStage ==
  [][\A n \in StageNames \ DOMAIN stages :
       (lastOp'.op = "switchTo" /\ switchTo(n))
       => /\ lastOp'.err = "StageNotFound"
          /\ hookLog' = <<>>
          /\ UNCHANGED <<stages, currentStage>>]_vars

C7_Witness ==
  /\ lastOp.op = "switchTo"
  /\ lastOp.err = "StageNotFound"
  /\ currentStage # Absent
  /\ DOMAIN stages # {}


\* number of elements of the system list that are system s
Occurrences(list, s) == Cardinality({i \in 1 .. Len(list) : list[i].sys = s})

\* the list is in ascending order of priority
PrioritySorted(list) ==
  \A i, j \in 1 .. Len(list) : i < j => Priority(list[i].sys) <= Priority(list[j].sys)

\* C19: the step of an addSystem call (the only one that counts a call) is
\* addSystem(s) for the one system s whose onInit it called, once and with s in
\* the list, and leaves the list sorted by priority with one more element, which
\* is s; a step returning from removeSystem that changed the list is
\* removeSystem(s) for the one system s whose onDestroy it called, once and with
\* s still in the list, and leaves the list without the first element that is
\* s, the order kept.
C19_SystemHooks ==
  [][/\ addCount' # addCount
        => /\ lastOp'.op = "addSystem"
           /\ Len(hookLog') = 1
           /\ hookLog'[1].hook = "onInit"
           /\ hookLog'[1].syss = SystemIds(systems')
           /\ addSystem(hookLog'[1].obj)
           /\ PrioritySorted(systems')
           /\ Len(systems') = Len(systems) + 1
           /\ \A t \in Systems :
                Occurrences(systems', t)
                  = Occurrences(systems, t) + (IF t = hookLog'[1].obj THEN 1 ELSE 0)
     /\ (lastOp'.op = "removeSystem" /\ systems' # systems)
        => /\ Len(hookLog') = 1
           /\ hookLog'[1].hook = "onDestroy"
           /\ hookLog'[1].syss = SystemIds(systems)
           /\ LET index == IndexOf(systems, hookLog'[1].obj)
              IN /\ index # 0
                 /\ removeSystem(hookLog'[1].obj)
                 /\ PrioritySorted(systems')
                 /\ Len(systems') = Len(systems) - 1
                 /\ \A i \in 1 .. Len(systems') :
                      systems'[i] = systems[IF i < index THEN i ELSE i + 1]]_vars

\* addSystem has put a system in front of a registered one and called its onInit
C19_Witness ==
  /\ lastOp.op = "addSystem"
  /\ Len(systems) >= 2
  /\ Len(hookLog) = 1
  /\ hookLog[1].hook = "onInit"
  /\ systems[1].sys = hookLog[1].obj
  /\ systems[1].stamp > systems[2].stamp
  /\ entities # {}

\* the calls that add or remove an entity or a component
Mutations == {"addEntity", "removeEntity", "addComponent", "removeComponent"}

\* C18: when the system updated first in an update call has added or removed an
\* entity or a component, the query a system updated later in that call makes
\* next returns the entities that match in the store as it now is.
C18_MutationVisibleLater ==
  [][\A ks \in StoreLists :
       (/\ updating /\ inCall
        /\ Len(frameLog) >= 2
        /\ lastOp.op \in Mutations
        /\ query(ks))
       => lastOp'.ret = Matching(ks)']_vars

\* C20: removeEntity of an id that is not registered, removeComponent of a kind
\* the entity does not hold or of an entity that is not registered, and
\* removeSystem of a system that is not in the list raise no error, call no
\* hook, and leave the registry, the store, the system list and what every query
\* returns as they were.
C20_RemoveAbsentIsNoOp ==
  [][(\/ \E id \in CallIds \ entities : lastOp'.op = "removeEntity" /\ removeEntity(id)
      \/ \E id \in CallIds, k \in Kinds :
            /\ lastOp'.op = "removeComponent"
            /\ ~hasComponent(id, k)
            /\ removeComponent(id, k)
      \/ \E s \in Systems :
            lastOp'.op = "removeSystem" /\ IndexOf(systems, s) = 0 /\ removeSystem(s))
     => /\ lastOp'.err = "none"
        /\ hookLog' = <<>>
        /\ UNCHANGED <<entities, components, systems>>
        /\ \A ks \in KindLists : QueryResult(ks)' = QueryResult(ks)]_vars

\* C21: addEntity of an entity that is registered and holds components raises no
\* error, calls no hook, leaves the entity count as it was, and leaves the entity
\* without a component of any kind: hasComponent is false for every kind and no
\* query for one of the kinds returns the entity.
C21_ReAddResetsEntity ==
  [][\A e \in entities :
       (/\ lastOp'.op = "addEntity"
        /\ MapHas(components, e) /\ components[e] # EmptyMap
        /\ components'[e] = EmptyMap)
       => /\ lastOp'.err = "none"
          /\ hookLog' = <<>>
          /\ Cardinality(entities') = Cardinality(entities)
          /\ \A k \in Kinds : ~hasComponent(e, k)'
          /\ \A ks \in StoreLists \ {<<>>} : e \notin QueryResult(ks)']_vars

\* C30: the current stage is absent or is the stage registered under some name.
C30_CurrentStageRegistered ==
  currentStage = Absent \/ \E n \in DOMAIN stages : stages[n] = currentStage

\* C22: a tick of the running clock at a time less than 1000 / targetFPS after
\* lastFrameTime, targetFPS being positive, invokes no callback, leaves
\* lastFrameTime, frameCount, delta and elapsed as they were and requests the next
\* animation frame; every other tick of the running clock invokes the callback
\* once, and with a positive targetFPS the delta it passes is at least
\* 1 / targetFPS seconds.  The tick start() makes is a tick at lastFrameTime.
C22_FrameCap ==
  [][/\ (tickDeliver /\ isRunning)
        => IF targetFPS > 0 /\ (now - lastFrameTime) * targetFPS < 1000
           THEN /\ timeOp'.called = Absent
                /\ tickStack' = <<>>
                /\ UNCHANGED <<lastFrameTime, frameCount, delta, elapsed, cbInFrame>>
                /\ timeOp'.requested
                /\ rafId' \in pending' \ pending
           ELSE /\ updateCallback # Absent
                /\ timeOp'.called = updateCallback
                /\ cbInFrame' = cbInFrame + 1
                /\ Len(tickStack') = 1
                /\ FracEq(delta', Frac(now - lastFrameTime, 1000))
                /\ targetFPS > 0 => ~FracLess(delta', Frac(1, targetFPS))
     /\ \A cb \in Callbacks :
          (timeStart(cb) /\ ~isRunning)
          => IF targetFPS > 0
             THEN /\ timeOp'.called = Absent
                  /\ tickStack' = tickStack
                  /\ UNCHANGED <<frameCount, delta, elapsed, cbInFrame>>
                  /\ rafId' \in pending' \ pending
             ELSE /\ timeOp'.called = cb
                  /\ Len(tickStack') = Len(tickStack) + 1]_vars

\* a tick that came later than the last frame was skipped, after a frame for
\* which the callback was invoked
C22_Witness ==
  /\ timeOp.op = "tick" /\ timeOp.skipped
  /\ timeOp.time > lastFrameTime
  /\ frameCount > 0

\* the animation-frame requests of the clock the host has not yet answered
Outstanding == pending \cup {deliverQ[i] : i \in 1 .. Len(deliverQ)}

\* C23: while the clock is stopped and no tick is executing, the host holds no
\* animation-frame request of the clock.
C23_StoppedHasNoRequest ==
  (~isRunning /\ tickStack = <<>>) => Outstanding = {}

\* C24: the host never holds two animation-frame requests of the clock, and the
\* ticks the host runs in one animation frame invoke the callback at most once.
C24_SingleTickChain ==
  /\ Cardinality(Outstanding) <= 1
  /\ cbInFrame <= 1

\* C25: the callback is invoked only by a tick of a running clock or by the start
\* that sets it running; a tick the host delivers to a stopped clock changes
\* nothing of the clock and requests nothing; stop() leaves the callbacks that are
\* executing on the stack, to return in their own time.
C25_NoCallbackWhileStopped ==
  [][/\ Len(tickStack') > Len(tickStack)
        => isRunning' /\ (isRunning \/ timeOp'.op = "start")
     /\ (tickDeliver /\ ~isRunning)
        => /\ timeOp'.called = Absent
           /\ UNCHANGED <<clockVars, pending, nextRaf, tickStack, cbInFrame>>
     /\ timeStop => tickStack' = tickStack]_vars

\* the host has delivered a tick, requested earlier, to the stopped clock
C25_Witness ==
  /\ timeOp.op = "tick" /\ ~timeOp.ran
  /\ ~isRunning
  /\ updateCallback # Absent

\* C26: start(cb) of a running clock, for the registered callback or another
\* one, warns and changes nothing: the callback, lastFrameTime, startTime, the
\* counters and the requests held by the host stay as they were and no callback
\* is invoked.
C26_StartWhileRunning ==
  [][\A cb \in Callbacks :
       (isRunning /\ timeOp'.op = "start" /\ timeStart(cb))
       => /\ timeOp'.warned
          /\ timeOp'.called = Absent /\ ~timeOp'.requested
          /\ UNCHANGED <<clockVars, hostVars, tickStack, cbInFrame>>]_vars

\* start was called on the running clock, from inside the frame callback, after
\* a frame had been counted
C26_Witness ==
  /\ timeOp.op = "start" /\ timeOp.warned
  /\ isRunning /\ tickStack # <<>>
  /\ frameCount > 0 /\ Outstanding = {}

\* C27: start(cb) of a stopped clock sets the clock running, requests one
\* animation frame from the host and returns without invoking the callback.
C27_StartOnlySchedules ==
  [][\A cb \in Callbacks :
       (~isRunning /\ timeOp'.op = "start" /\ timeStart(cb))
       => /\ isRunning' /\ updateCallback' = cb
          /\ timeOp'.requested
          /\ timeOp'.called = Absent
          /\ tickStack' = tickStack
          /\ frameCount' = frameCount]_vars

\* C28: the elapsed value passed to the callback, times 1000, is the timestamp
\* of the tick minus the time of the last start() that set the clock running or
\* of the reset() after it.
C28_ElapsedSinceStart ==
  [][(Len(tickStack') > Len(tickStack) /\ timeOp'.called # Absent)
       => FracEq(elapsed', Frac(timeOp'.time - loopStart', 1000))]_vars

\* C29: a tick that is not skipped adds deltaMs to fpsAccumulator and 1 to
\* fpsFrameCount; if the sum is 1000 or more, fps becomes the integer nearest to
\* frames * 1000 / sum (the upper one of two) and both are reset to 0, otherwise
\* fps stays.  A skipped tick and a tick of the stopped clock change none of the
\* three, and fpsAccumulator is below 1000 in every state.
C29_RollingFps ==
  [][/\ timeOp'.op \in {"tick", "start"} /\ timeOp' # timeOp /\ ~timeOp'.warned
        => IF timeOp'.ran /\ ~timeOp'.skipped
           THEN LET deltaMs == IF timeOp'.op = "start" THEN 0 ELSE now - lastFrameTime
                    acc == fpsAccumulator + deltaMs
                    cnt == fpsFrameCount + 1
                IN IF acc >= 1000
                   THEN /\ 2 * acc * fps' <= (2 * cnt * 1000) + acc
                        /\ (2 * cnt * 1000) + acc < 2 * acc * (fps' + 1)
                        /\ fpsAccumulator' = 0 /\ fpsFrameCount' = 0
                   ELSE /\ fpsAccumulator' = acc /\ fpsFrameCount' = cnt
                        /\ fps' = fps
           ELSE UNCHANGED <<fps, fpsAccumulator, fpsFrameCount>>
     /\ fpsAccumulator' < 1000]_vars

\* the estimate has been computed from more than a second in two frames, and is
\* not the quotient rounded down
C29_Witness ==
  /\ timeOp.op = "tick" /\ timeOp.called # Absent
  /\ fpsAccumulator = 0 /\ fpsFrameCount = 0
  /\ fps = 2 /\ frameCount = 2

\* C31: update(d, e) with a current stage calls onUpdate once, on that stage and
\* with d and e, and no other hook; without a current stage it calls no hook.
\* It leaves the registry and the current stage as they were, and the stage it
\* calls has been entered by onInit and not been exited by onDestroy since.
C31_UpdateForwardsToCurrent ==
  [][\A d, e \in StageTimes :
       (lastOp'.op = "update" /\ sceneUpdate(d, e))
       => /\ UNCHANGED <<stages, currentStage>>
          /\ IF currentStage = Absent
             THEN hookLog' = <<>>
             ELSE /\ Len(hookLog') = 1
                  /\ hookLog'[1].hook = "onUpdate"
                  /\ hookLog'[1].obj = currentStage
                  /\ hookLog'[1].delta = d /\ hookLog'[1].elapsed = e
                  /\ currentStage \in stageLive]_vars

\* update has been forwarded to the current stage while another stage is
\* registered too
C31_Witness ==
  /\ lastOp.op = "update"
  /\ Len(hookLog) = 1 /\ hookLog[1].obj = currentStage
  /\ hookLog[1].delta # hookLog[1].elapsed
  /\ \E n \in DOMAIN stages : stages[n] # currentStage

\* C32: dispose() calls onDestroy once on the current stage, if there is one, and
\* no other hook, and leaves no stage current and the registry empty; the call
\* that follows it calls no hook if it is update or dispose, and raises
\* StageNotFound if it is switchTo, for every name.
C32_DisposeClearsAll ==
  [][/\ (lastOp'.op = "dispose" /\ dispose)
        => /\ currentStage' = Absent /\ stages' = EmptyMap
           /\ IF currentStage = Absent THEN hookLog' = <<>>
              ELSE /\ Len(hookLog') = 1
                   /\ hookLog'[1].hook = "onDestroy" /\ hookLog'[1].obj = currentStage
     /\ lastOp.op = "dispose"
        => /\ \A d, e \in StageTimes : sceneUpdate(d, e) => hookLog' = <<>>
           /\ dispose => hookLog' = <<>>
           /\ \A n \in StageNames :
                (lastOp'.op = "switchTo" /\ switchTo(n))
                => lastOp'.err = "StageNotFound" /\ hookLog' = <<>>]_vars

\* dispose has exited the current stage and emptied the registry
C32_Witness ==
  /\ lastOp.op = "dispose"
  /\ Len(hookLog) = 1 /\ hookLog[1].hook = "onDestroy"
  /\ stages = EmptyMap /\ currentStage = Absent /\ stageLive = {}

\* C36: when removeSystem(s) has returned, s is not in the system list, however
\* often addSystem(s) was called before.
C36_RemovedSystemIsGone ==
  [][\A s \in Systems :
       (lastOp'.op = "removeSystem" /\ removeSystem(s)) => IndexOf(systems', s) = 0]_vars

\* the entityId argument component instance c was constructed with
EntityIdOf(c) == (c - 1) % MaxEntities

\* the entities whose component map holds instance c
HoldersOf(c) ==
  {id \in DOMAIN components : \E k \in DOMAIN components[id] : components[id][k] = c}

\* C35: every component instance is held by the component map of at most one
\* entity, and that entity's id is the entityId field of the instance.
C35_ComponentBoundToOneEntity ==
  \A c \in Comps :
    /\ Cardinality(HoldersOf(c)) <= 1
    /\ \A id \in HoldersOf(c) : id = EntityIdOf(c)

\* C37: on every tick that invokes the callback, with no stop() or reset() since
\* the start() that set the clock running, the sum of the deltaMs passed to the
\* callback since that start() is the timestamp of the tick minus the time
\* start() read.
C37_NoTimeLost ==
  [][(Len(tickStack') > Len(tickStack) /\ timeOp'.called # Absent /\ deltaSum' # Cut)
       => deltaSum' = timeOp'.time - loopStart']_vars

\* C33: while the engine loop is running and the stage machine has a current
\* stage, the frame callback the clock invoked has, when it returns, called
\* onUpdate on the current stage exactly once with the (delta, elapsed) of its tick
C33_TickReachesCurrentStage ==
  [][(Len(tickStack') < Len(tickStack) /\ isRunning /\ currentStage # Absent)
       => Cardinality({i \in DOMAIN cbLog' :
                         cbLog'[i] = EngineCall("stage.onUpdate", currentStage,
                                                cbLog'[1].delta, cbLog'[1].elapsed)}) = 1]_vars

\* C34: with one registered entity holding the Position and the Mover registered
\* and enabled, after every return of the frame callback position.x is the sum
\* of the deltas the clock has passed to the callback, and the callback that
\* returned last has updated the Mover exactly once, with the delta it was given
C34_PositionAccumulates ==
  (AppReady /\ tickStack = <<>>)
    => /\ FracEq(posX, fedSum)
       /\ cbLog # <<>>
            => Cardinality({i \in DOMAIN cbLog :
                              cbLog[i] = EngineCall("system.update", Mover,
                                                    cbLog[1].delta, cbLog[1].elapsed)}) = 1

\* two callbacks with delta 0.6 have returned and position.x is 1.2
C34_Witness ==
  /\ tickStack = <<>>
  /\ AppReady
  /\ Len(cbLog) > 1
  /\ FracEq(cbLog[1].delta, Frac(6, 10))
  /\ FracEq(posX, Frac(12, 10))

\* C38: when the outermost emit returns, the listeners it called that were
\* subscribed when it was called are exactly those listeners, once each, in
\* subscription order
RECURSIVE Among(_, _)
Among(calls, snap) ==
  IF calls = <<>> THEN <<>>
  ELSE IF \E i \in 1 .. Len(snap) : snap[i] = Head(calls)
       THEN <<Head(calls)>> \o Among(Tail(calls), snap)
       ELSE Among(Tail(calls), snap)

C38_EmitReachesAll ==
  [][(Len(emits) = 1 /\ emits' = <<>>) => Among(heard.calls, heard.snap) = heard.snap]_vars

\* C39: a wrapper of once is called at most once, and once its first call is
\* over it is not in the callback array
OnceRunning(w) == \E i \in 1 .. Len(emits) : emits[i].run.w = w

C39_OnceCalledOnce ==
  \A w \in DOMAIN heard.once :
    /\ heard.once[w] <= 1
    /\ (heard.once[w] >= 1 /\ ~OnceRunning(w))
         => (~MapHas(events, EventName)
             \/ \A i \in 1 .. Len(events[EventName]) : events[EventName][i].w # w)

\* C40: once onDestroy of the ARStage has run and every onInit call has run to
\* its end, the World registers no entity the stage created and no CameraFeed of
\* the stage holds a stream or is active
C40_DestroyRemovesAll ==
  (/\ feeds # <<>>
   /\ ArStage \notin stageLive
   /\ \A f \in DOMAIN feeds : feeds[f].pc = "done")
    => /\ \A e \in entities : names[e] # DemoCube
       /\ \A f \in DOMAIN feeds : (~feeds[f].stream) /\ (~feeds[f].isActive)

\* C17: the step of update that reaches a disabled system calls neither its
\* update nor a hook and leaves the system list as it is; an update call that
\* follows disable() of a registered system returns without having updated it,
\* and one that follows enable() returns having updated it.
C17_DisabledSystemSkipped ==
  [][/\ (updating /\ updating' /\ iterIdx' = iterIdx + 1
         /\ iterIdx < Len(systems) /\ ~enabled[systems[iterIdx + 1].sys])
        => /\ frameLog' = frameLog
           /\ hookLog' = hookLog
           /\ systems' = systems
           /\ ~inCall'
     /\ (updating /\ ~updating')
        => \A s \in Systems :
             (lastOp.self = {s} /\ IndexOf(systems, s) # 0)
             => /\ lastOp.op = "disable" => Updates(s) = 0
                /\ lastOp.op = "enable" => Updates(s) >= 1]_vars

\* an update call has passed a system that the host disabled and has updated a
\* system behind it
C17_Witness ==
  /\ updating
  /\ lastOp.op = "disable"
  /\ \E s \in lastOp.self :
       /\ IndexOf(systems, s) # 0
       /\ IndexOf(systems, s) < iterIdx
       /\ Updates(s) = 0
       /\ inCall
       /\ Len(frameLog) >= 2
====
